---------------------------- MODULE Spec2Model ----------------------------
(***************************************************************************)
(* State-machine model of the document question-answering backend         *)
(* (src/backend): token issue and validation (auth.py), the HTTP handlers *)
(* login, upload_documents, query_documents, delete_documents (main.py),  *)
(* the vector store adapter (vector_store.py) and the query pipeline      *)
(* (utils.py).                                                            *)
(*                                                                         *)
(* One action is one HTTP request handled to completion.  The clock is    *)
(* counted in whole minutes.  The external services (Weaviate, the        *)
(* embedding API, the chat model) are modelled by what the code observes  *)
(* of them: a call returns or raises.                                      *)
(*                                                                         *)
(* SpecConcurrent cuts the handlers at their accesses to the collection   *)
(* and interleaves two requests; SpecFrontend models the Streamlit page   *)
(* (src/frontend/app.py), one action per script run.                       *)
(***************************************************************************)
EXTENDS Integers, Sequences, FiniteSets, TLC

VARIABLES now, issued, classExists, docs, strictDelete, env, workers, session,
          reading, last

vars == <<now, issued, classExists, docs, strictDelete, env, workers, session,
          reading, last>>

(***************************************************************************)
(* Bounds of the model.                                                    *)
(***************************************************************************)
\* the clock runs from 0 to MaxTime minutes
MaxTime == 45
\* the clock advances in steps of TickMinutes
TickMinutes == 15
\* at most MaxTokens successful logins are followed
MaxTokens == 2
\* the collection holds at most MaxDocs records
MaxDocs == 2
\* at most MaxInFlight uploads are suspended in file.read() at a time
MaxInFlight == 2

(***************************************************************************)
(* auth.py: configuration and the credential table.                        *)
(***************************************************************************)
SECRET_KEY == "secret-key"
OtherKey == "other-key"

\* main.py:206, the lifetime login asks for
LOGIN_EXPIRE_MINUTES == 30
\* auth.py:94, the lifetime create_access_token falls back to
DEFAULT_EXPIRE_MINUTES == 15

SeededEmail == "amna@example.com"
SeededPassword == "amna123"
UnknownEmail == "eve@example.com"

\* pwd_context.hash: a one-way image of the password
Hash(p) == <<"bcrypt", p>>

fake_users_db ==
    [e \in {SeededEmail} |-> [email |-> e, hashed_password |-> Hash(SeededPassword)]]

\* fake_users_db.get(email) is not None
UserKnown(email) == email \in DOMAIN fake_users_db

\* mutant: the comparison is dropped, every password verifies
verify_password_any(plain_password, hashed_password) ==
    Len(hashed_password) > 0

verify_password(plain_password, hashed_password) ==
    Hash(plain_password) = hashed_password

(***************************************************************************)
(* Tokens.  A token is what jwt.encode produced or what a client made up: *)
(* wf (it parses as a JWT), key (the key its signature verifies under),   *)
(* sub and exp (its claims; NoSub / NoExp when the claim is absent).      *)
(***************************************************************************)
NoSub == "<no sub>"
NoExp == -1
NoDelta == -1

jwt_encode(claims, key) ==
    [wf |-> TRUE, key |-> key, sub |-> claims.sub, exp |-> claims.exp]

\* mutant: the exp claim is not validated
jwt_decode_no_exp(token, key, t) ==
    IF ~token.wf THEN [ok |-> FALSE, error |-> "JWTError", sub |-> NoSub]
    ELSE IF token.key # key THEN [ok |-> FALSE, error |-> "JWTError", sub |-> NoSub]
    ELSE [ok |-> TRUE, error |-> "", sub |-> token.sub]

\* jwt.decode(token, key): malformed, bad signature and expired all raise
\* JWTError; exp is compared as "exp < now" (python-jose _validate_exp)
jwt_decode(token, key, t) ==
    IF ~token.wf THEN [ok |-> FALSE, error |-> "JWTError", sub |-> NoSub]
    ELSE IF token.key # key THEN [ok |-> FALSE, error |-> "JWTError", sub |-> NoSub]
    ELSE IF token.exp # NoExp /\ token.exp < t
         THEN [ok |-> FALSE, error |-> "ExpiredSignatureError", sub |-> NoSub]
    ELSE [ok |-> TRUE, error |-> "", sub |-> token.sub]

\* expires_delta or timedelta(minutes=15): None and a zero delta are falsy
create_access_token(data, expires_delta, t) ==
    LET delta == IF expires_delta = NoDelta \/ expires_delta = 0
                 THEN DEFAULT_EXPIRE_MINUTES ELSE expires_delta
        expire == t + delta
    IN  jwt_encode([sub |-> data.sub, exp |-> expire], SECRET_KEY)

(***************************************************************************)
(* Responses.                                                              *)
(***************************************************************************)
NoHeaders == {}
BearerChallenge == {<<"WWW-Authenticate", "Bearer">>}
NoBody == [null |-> TRUE]

Response(status, detail, headers, body, calls) ==
    [status |-> status, detail |-> detail, headers |-> headers,
     body |-> body, calls |-> calls]

\* raise HTTPException(status_code, detail, headers) answered by the framework
HTTPError(status, detail, headers, calls) ==
    Response(status, detail, headers, NoBody, calls)

\* an exception value: an HTTPException or any other Exception
HTTPException(status, detail) ==
    [type |-> "HTTPException", status_code |-> status, detail |-> detail]
Exception(msg) ==
    [type |-> "Exception", status_code |-> 0, detail |-> msg]

\* str(e): Starlette prints an HTTPException as "<status>: <detail>"
Str(e) ==
    IF e.type = "HTTPException"
    THEN <<ToString(e.status_code), ": ">> \o e.detail
    ELSE e.detail

(***************************************************************************)
(* auth.py: get_current_user, the dependency of every protected endpoint. *)
(* auth is the Authorization header: <<>> when absent, <<token>> else.    *)
(***************************************************************************)
credentials_exception ==
    [status |-> 401, detail |-> <<"Invalid authentication credentials">>,
     headers |-> BearerChallenge]

\* oauth2_scheme (OAuth2PasswordBearer): no bearer credential at all
not_authenticated ==
    [status |-> 401, detail |-> <<"Not authenticated">>, headers |-> BearerChallenge]

\* mutant: the failing step shows in the detail
get_current_user_tells(auth, t) ==
    IF auth = <<>> THEN [ok |-> FALSE, exc |-> not_authenticated, email |-> NoSub]
    ELSE LET payload == jwt_decode(auth[1], SECRET_KEY, t)
             email == payload.sub
         IN  IF ~payload.ok
             THEN [ok |-> FALSE, exc |-> credentials_exception, email |-> NoSub]
             ELSE IF email = NoSub \/ ~UserKnown(email)
             THEN [ok |-> FALSE,
                   exc |-> [status |-> 401, detail |-> <<"User not found">>,
                            headers |-> BearerChallenge],
                   email |-> NoSub]
             ELSE [ok |-> TRUE, exc |-> credentials_exception, email |-> email]

\* mutant: the user is not looked up again
get_current_user_no_lookup(auth, t) ==
    IF auth = <<>> THEN [ok |-> FALSE, exc |-> not_authenticated, email |-> NoSub]
    ELSE LET payload == jwt_decode(auth[1], SECRET_KEY, t)
             email == payload.sub
         IN  IF ~payload.ok
             THEN [ok |-> FALSE, exc |-> credentials_exception, email |-> NoSub]
             ELSE IF email = NoSub
             THEN [ok |-> FALSE, exc |-> credentials_exception, email |-> NoSub]
             ELSE [ok |-> TRUE, exc |-> credentials_exception, email |-> email]

\* mutant: a token stops being accepted once a later one has been issued
get_current_user_latest_only(auth, t) ==
    IF auth = <<>> THEN [ok |-> FALSE, exc |-> not_authenticated, email |-> NoSub]
    ELSE LET payload == jwt_decode(auth[1], SECRET_KEY, t)
             email == payload.sub
         IN  IF ~payload.ok
             THEN [ok |-> FALSE, exc |-> credentials_exception, email |-> NoSub]
             ELSE IF email = NoSub \/ ~UserKnown(email)
             THEN [ok |-> FALSE, exc |-> credentials_exception, email |-> NoSub]
             ELSE IF \E i \in issued : i.token.exp > auth[1].exp
             THEN [ok |-> FALSE, exc |-> credentials_exception, email |-> NoSub]
             ELSE [ok |-> TRUE, exc |-> credentials_exception, email |-> email]

get_current_user(auth, t) ==
    IF auth = <<>> THEN [ok |-> FALSE, exc |-> not_authenticated, email |-> NoSub]
    ELSE LET payload == jwt_decode(auth[1], SECRET_KEY, t)
             email == payload.sub
         IN  IF ~payload.ok
             THEN [ok |-> FALSE, exc |-> credentials_exception, email |-> NoSub]
             ELSE IF email = NoSub
             THEN [ok |-> FALSE, exc |-> credentials_exception, email |-> NoSub]
             ELSE IF ~UserKnown(email)
             THEN [ok |-> FALSE, exc |-> credentials_exception, email |-> NoSub]
             ELSE [ok |-> TRUE, exc |-> credentials_exception, email |-> email]

Unauthorized(user) ==
    HTTPError(user.exc.status, user.exc.detail, user.exc.headers, <<>>)

(***************************************************************************)
(* main.py: login.                                                         *)
(***************************************************************************)
\* mutant: the lifetime is left to create_access_token's default
login_default_lifetime(username, password, t) ==
    IF ~UserKnown(username)
       \/ ~verify_password(password, fake_users_db[username].hashed_password)
    THEN HTTPError(400, <<"Incorrect email or password">>, NoHeaders, <<>>)
    ELSE Response(200, <<>>, NoHeaders,
                  [access_token |->
                       create_access_token([sub |-> fake_users_db[username].email],
                                           NoDelta, t),
                   token_type |-> "bearer"],
                  <<>>)

\* mutant: the lookup and the password check answer differently
login_tells_unknown_user(username, password, t) ==
    IF ~UserKnown(username)
    THEN HTTPError(400, <<"User not found">>, NoHeaders, <<>>)
    ELSE IF ~verify_password(password, fake_users_db[username].hashed_password)
    THEN HTTPError(400, <<"Incorrect email or password">>, NoHeaders, <<>>)
    ELSE Response(200, <<>>, NoHeaders,
                  [access_token |->
                       create_access_token([sub |-> fake_users_db[username].email],
                                           LOGIN_EXPIRE_MINUTES, t),
                   token_type |-> "bearer"],
                  <<>>)

login(username, password, t) ==
    IF ~UserKnown(username)
       \/ ~verify_password(password, fake_users_db[username].hashed_password)
    THEN HTTPError(400, <<"Incorrect email or password">>, NoHeaders, <<>>)
    ELSE LET access_token ==
                 create_access_token([sub |-> fake_users_db[username].email],
                                     LOGIN_EXPIRE_MINUTES, t)
         IN  Response(200, <<>>, NoHeaders,
                      [access_token |-> access_token, token_type |-> "bearer"],
                      <<>>)

(***************************************************************************)
(* Requests.                                                               *)
(***************************************************************************)
\* what goes wrong outside the process while one request is handled: the
\* vector store is unreachable, the embedding API fails, the chat model fails
Faults == {"none", "store", "embed", "llm"}
\* the services each handler calls
UploadFaults == {"none", "store", "embed"}
DeleteFaults == {"none", "store"}

\* a text is a sequence of characters; the texts here hold letters only
Char == "x"

\* an uploaded file: its name as <<stem, extension>>, the text its content
\* holds, whether the content can be extracted at all, and whether the
\* framework rolled the upload to disk (a large file): "await file.read()"
\* of such a file waits for a thread and returns to the event loop, the
\* read of a file held in memory returns without suspending the handler
PdfFile == [filename |-> <<"a", ".pdf">>, text |-> <<Char>>, readable |-> TRUE,
            spooled |-> TRUE]
EmptyMdFile == [filename |-> <<"e", ".md">>, text |-> <<>>, readable |-> TRUE,
                spooled |-> FALSE]
TxtFile == [filename |-> <<"n", ".txt">>, text |-> <<Char>>, readable |-> TRUE,
            spooled |-> FALSE]
BadPdfFile == [filename |-> <<"bad", ".pdf">>, text |-> <<>>, readable |-> FALSE,
               spooled |-> FALSE]
Files == {PdfFile, EmptyMdFile, TxtFile, BadPdfFile}

\* the upload requests: one file, or two files in either order
FileLists == {<<f>> : f \in Files} \cup {<<f, g>> : f \in Files, g \in Files}

Queries == {<<Char>>, <<Char, Char>>}

\* file.filename.endswith(ext)
endswith(filename, ext) == filename[Len(filename)] = ext

(***************************************************************************)
(* preprocessing.py.  clean_text lowers the letters, applies six regular   *)
(* expression substitutions that remove markdown markup, and joins the     *)
(* words with single spaces.  Each substitution is re.sub: the text is     *)
(* read from the left, at every position the expression is tried with its  *)
(* greedy and lazy choices, a match is replaced and reading goes on after  *)
(* it.  extract_metadata counts the sentences and the tokens that nltk's   *)
(* tokenizers find in the cleaned text.                                    *)
(***************************************************************************)
\* str.lower(), for the upper case letters the texts of the model hold
Lower(c) ==
    CASE c = "X" -> "x" [] c = "A" -> "a" [] c = "B" -> "b" [] c = "T" -> "t"
      [] c = "H" -> "h" [] c = "I" -> "i"
      [] OTHER -> c
LowerText(text) == [i \in 1..Len(text) |-> Lower(text[i])]

\* \s, for the white space the texts of the model hold
WhiteSpace == {" ", "\n"}
\* [*_]
Markers == {"*", "_"}

\* the number of characters from position i on that are in S
RECURSIVE RunLen(_, _, _)
RunLen(text, i, S) ==
    IF i <= Len(text) /\ text[i] \in S THEN 1 + RunLen(text, i + 1, S) ELSE 0
\* the number of characters from position i on that are not in S
RECURSIVE RunLenNot(_, _, _)
RunLenNot(text, i, S) ==
    IF i <= Len(text) /\ text[i] \notin S THEN 1 + RunLenNot(text, i + 1, S) ELSE 0
\* the first position from i on that holds a character of S, 0 if none
FirstIn(text, i, S) ==
    IF \E j \in i..Len(text) : text[j] \in S
    THEN i + RunLenNot(text, i, S) ELSE 0
CharAt(text, i) == IF i \in 1..Len(text) THEN text[i] ELSE ""
\* ^ with re.MULTILINE
LineStart(text, i) == i = 1 \/ text[i - 1] = "\n"
SetMax(S) == CHOOSE k \in S : \A j \in S : j <= k
SetMin(S) == CHOOSE k \in S : \A j \in S : k <= j
\* the numbers of a set in ascending order
Ascending(S) ==
    [k \in 1..Cardinality(S) |->
        CHOOSE s \in S : Cardinality({t \in S : t <= s}) = k]

\* the outcome of trying an expression at one position: whether it
\* matches, the last position of the match, and what replaces the match
NoMatch == [ok |-> FALSE, end |-> 0, repl |-> <<>>]
MatchTo(end, repl) == [ok |-> TRUE, end |-> end, repl |-> repl]

\* #{1,6}\s+(.*?)\n  ->  \1\n
match_header(text, i) ==
    LET h == RunLen(text, i, {"#"})
        s == i + h
        w == RunLen(text, s, WhiteSpace)
        ks == {k \in 1..w : FirstIn(text, s + k, {"\n"}) # 0}
    IN  IF h \in 1..6 /\ ks # {}
        THEN LET k == SetMax(ks)
                 q == FirstIn(text, s + k, {"\n"})
             IN  MatchTo(q, SubSeq(text, s + k, q - 1) \o <<"\n">>)
        ELSE NoMatch

\* \[([^\]]+)\]\([^\)]+\)  ->  \1
match_link(text, i) ==
    LET j == FirstIn(text, i + 1, {"]"})
        k == FirstIn(text, j + 2, {")"})
    IN  IF /\ CharAt(text, i) = "["
           /\ j > i + 1
           /\ CharAt(text, j + 1) = "("
           /\ k > j + 2
        THEN MatchTo(k, SubSeq(text, i + 1, j - 1))
        ELSE NoMatch

\* !\[.*?\]\(.*?\)  ->  nothing
match_image(text, i) ==
    LET js == {j \in (i + 2)..Len(text) :
                  /\ text[j] = "]" /\ CharAt(text, j + 1) = "("
                  /\ \A n \in (i + 2)..(j - 1) : text[n] # "\n"}
    IN  IF CharAt(text, i) = "!" /\ CharAt(text, i + 1) = "[" /\ js # {}
        THEN LET j == CHOOSE j \in js : \A n \in js : j <= n
                 k == FirstIn(text, j + 2, {")", "\n"})
             IN  IF k # 0 /\ text[k] = ")" THEN MatchTo(k, <<>>) ELSE NoMatch
        ELSE NoMatch

\* mutant: emphasis markers are left in the text
match_emphasis_never(text, i) == NoMatch

\* [*_]{1,2}([^*_]+)[*_]{1,2}  ->  \1
match_emphasis(text, i) ==
    LET s == IF CharAt(text, i + 1) \in Markers THEN i + 2 ELSE i + 1
        c == s + RunLenNot(text, s, Markers)
    IN  IF CharAt(text, i) \in Markers /\ c > s /\ c <= Len(text)
        THEN MatchTo(IF CharAt(text, c + 1) \in Markers THEN c + 1 ELSE c,
                     SubSeq(text, s, c - 1))
        ELSE NoMatch

\* ^\s*[-*+]\s+ with re.MULTILINE  ->  nothing
match_bullet(text, i) ==
    LET b == i + RunLen(text, i, WhiteSpace)
        w == RunLen(text, b + 1, WhiteSpace)
    IN  IF LineStart(text, i) /\ CharAt(text, b) \in {"-", "*", "+"} /\ w >= 1
        THEN MatchTo(b + w, <<>>)
        ELSE NoMatch

\* ^[-_*]{3,}\s*$ with re.MULTILINE  ->  nothing
match_rule(text, i) ==
    LET s == i + RunLen(text, i, {"-", "_", "*"})
        w == RunLen(text, s, WhiteSpace)
        nl == {k \in 0..(w - 1) : text[s + k] = "\n"}
    IN  IF ~LineStart(text, i) \/ s < i + 3 THEN NoMatch
        ELSE IF s + w > Len(text) THEN MatchTo(Len(text), <<>>)
        ELSE IF nl # {} THEN MatchTo(s + SetMax(nl) - 1, <<>>)
        ELSE NoMatch

match(rule, text, i) ==
    CASE rule = "header" -> match_header(text, i)
      [] rule = "link" -> match_link(text, i)
      [] rule = "image" -> match_image(text, i)
      [] rule = "emphasis" -> match_emphasis(text, i)
      [] rule = "bullet" -> match_bullet(text, i)
      [] rule = "rule" -> match_rule(text, i)

\* re.sub(rule, text), from position i on: the text up to the first
\* position at which the expression matches, what replaces the match, and
\* the same for the text behind the match
RECURSIVE re_sub(_, _, _)
re_sub(rule, text, i) ==
    LET replace(j, m) ==
            SubSeq(text, i, j - 1) \o m.repl \o re_sub(rule, text, m.end + 1)
        first(hits) ==
            IF hits = {} THEN SubSeq(text, i, Len(text))
            ELSE replace(SetMin(hits), match(rule, text, SetMin(hits)))
    IN  first({j \in i..Len(text) : match(rule, text, j).ok})

\* str.split(): the words between runs of white space
split_words(text) ==
    LET starts == Ascending({p \in 1..Len(text) :
                                /\ text[p] \notin WhiteSpace
                                /\ p = 1 \/ text[p - 1] \in WhiteSpace})
    IN  [k \in 1..Len(starts) |->
            SubSeq(text, starts[k],
                   starts[k] + RunLenNot(text, starts[k], WhiteSpace) - 1)]

\* ' '.join(words)
RECURSIVE join_words(_)
join_words(words) ==
    IF words = <<>> THEN <<>>
    ELSE IF Len(words) = 1 THEN Head(words)
    ELSE Head(words) \o <<" ">> \o join_words(Tail(words))

clean_text(text) ==
    LET lowered == LowerText(text)
        no_headers == re_sub("header", lowered, 1)
        no_links == re_sub("link", no_headers, 1)
        no_images == re_sub("image", no_links, 1)
        no_emphasis == re_sub("emphasis", no_images, 1)
        no_bullets == re_sub("bullet", no_emphasis, 1)
        no_rules == re_sub("rule", no_bullets, 1)
    IN  join_words(split_words(no_rules))

\* nltk's tokenizers, for texts of letters, white space, "!" and "?", "."
\* before a letter or at the end, and "'m" after a word.  sent_tokenize
\* (Punkt) ends a sentence at "!" or "?" when white space and a further
\* token follow; a period ends one only before white space, where the
\* trained list of abbreviations decides, which no text of the model has
SentEndChars == {"!", "?"}
InWord(c) == c \notin WhiteSpace /\ c \notin SentEndChars

\* where the sentences start: at the first token, and at a token that
\* stands behind a sentence end character and white space
SentenceStarts(text) ==
    {p \in 1..Len(text) :
        /\ text[p] \notin WhiteSpace
        /\ \/ \A j \in 1..(p - 1) : text[j] \in WhiteSpace
           \/ \E i \in 1..(p - 2) :
                  /\ text[i] \in SentEndChars
                  /\ \A j \in (i + 1)..(p - 1) : text[j] \in WhiteSpace}

\* sent_tokenize(text): each sentence runs up to the last character before
\* the next that is no white space
sent_tokenize(text) ==
    LET starts == Ascending(SentenceStarts(text))
        upto(k) == IF k = Len(starts) THEN Len(text) ELSE starts[k + 1] - 1
    IN  [k \in 1..Len(starts) |->
            SubSeq(text, starts[k],
                   SetMax({j \in starts[k]..upto(k) : text[j] \notin WhiteSpace}))]

\* the tokens of one word, a run without white space, "!" and "?"; final
\* says that only white space follows it in the sentence.  A period at the
\* end of the sentence is a token of its own, and so is "'m" at the end of
\* a word
WordTokens(word, final) ==
    LET period == /\ final /\ Len(word) >= 2
                  /\ word[Len(word)] = "." /\ word[Len(word) - 1] # "."
        body == IF period THEN SubSeq(word, 1, Len(word) - 1) ELSE word
        contracted == /\ Len(body) >= 3
                      /\ SubSeq(body, Len(body) - 1, Len(body)) = <<"'", "m">>
                      /\ body[Len(body) - 2] # "'"
    IN  (IF contracted
         THEN <<SubSeq(body, 1, Len(body) - 2), <<"'", "m">>>>
         ELSE <<body>>)
        \o (IF period THEN << <<".">> >> ELSE <<>>)

\* the lists of a list, one after the other
RECURSIVE Flatten(_)
Flatten(lists) ==
    IF lists = <<>> THEN <<>> ELSE Head(lists) \o Flatten(Tail(lists))

\* the Treebank tokenizer on one sentence: every "!" and "?" is a token,
\* every word gives the tokens of WordTokens
treebank_tokenize(sentence) ==
    LET starts == Ascending(
                      {p \in 1..Len(sentence) :
                          \/ sentence[p] \in SentEndChars
                          \/ /\ InWord(sentence[p])
                             /\ p = 1 \/ ~InWord(sentence[p - 1])})
        word(p, len) ==
            WordTokens(SubSeq(sentence, p, p + len - 1),
                       \A j \in (p + len)..Len(sentence) :
                           sentence[j] \in WhiteSpace)
        tokens(p) ==
            IF sentence[p] \in SentEndChars THEN << <<sentence[p]>> >>
            ELSE word(p, RunLenNot(sentence, p, WhiteSpace \cup SentEndChars))
    IN  Flatten([k \in 1..Len(starts) |-> tokens(starts[k])])

\* word_tokenize(text): the tokens of its sentences
word_tokenize(text) ==
    LET sentences == sent_tokenize(text)
    IN  Flatten([k \in 1..Len(sentences) |-> treebank_tokenize(sentences[k])])

extract_metadata(text) ==
    [num_sentences |-> Len(sent_tokenize(text)),
     num_words |-> Len(word_tokenize(text)),
     num_characters |-> Len(text)]

preprocess(text) ==
    LET result(processed_text) ==
            [processed_text |-> processed_text,
             metadata |-> extract_metadata(processed_text)]
    IN  result(clean_text(text))

(***************************************************************************)
(* utils.py: get_text_chunks, that is RecursiveCharacterTextSplitter with  *)
(* its default separators, keep_separator and strip_whitespace.  A text is *)
(* cut at the first separator of the list it contains, each separator kept *)
(* at the start of the piece that follows it; pieces shorter than the      *)
(* chunk size are merged into chunks, each chunk starting with the last    *)
(* pieces of the one before that fit into the overlap; longer pieces are   *)
(* cut again with the separators that remain.                              *)
(*                                                                         *)
(* The pieces of a text are slices of it that follow one another without a *)
(* gap, so a list of pieces is given by the positions at which the pieces  *)
(* start, and the list current_doc of _merge_splits, which loses pieces at *)
(* its front and gains them at its end, by its first and its last piece;   *)
(* its length total is the distance between two starts.  The loops over    *)
(* the pieces are stated by where they end: a condition that holds for the *)
(* pieces up to one piece and for none after it is counted.                *)
(***************************************************************************)
CHUNK_SIZE == 1000
CHUNK_OVERLAP == 200

\* the default separators: blank line, line end, space, nothing
Separators == << <<"\n", "\n">>, <<"\n">>, <<" ">>, <<>> >>

\* str.strip(), for the white space the texts of the model hold
IsSpace(c) == c \in {" ", "\n"}
LStrip(text) ==
    SubSeq(text,
           1 + Cardinality({i \in 1..Len(text) : \A j \in 1..i : IsSpace(text[j])}),
           Len(text))
RStrip(text) ==
    SubSeq(text, 1,
           Len(text) - Cardinality({i \in 1..Len(text) :
                                       \A j \in i..Len(text) : IsSpace(text[j])}))
Strip(text) == LStrip(RStrip(text))

\* the separator occurs in the text at position i
MatchAt(text, i, separator) ==
    /\ i + Len(separator) - 1 <= Len(text)
    /\ SubSeq(text, i, i + Len(separator) - 1) = separator
Contains(text, separator) == \E i \in 1..Len(text) : MatchAt(text, i, separator)

\* the number of characters c that stand without a gap before position i
RunBefore(text, i, c) ==
    Cardinality({j \in 1..(i - 1) : \A m \in j..(i - 1) : text[m] = c})

\* where re.split finds the separator: it reads from the left and goes on
\* behind a match, so that in a run of line ends "\n\n" is found at every
\* second one (each separator repeats one character)
SplitPoints(text, separator) ==
    {i \in 1..Len(text) :
        /\ MatchAt(text, i, separator)
        /\ RunBefore(text, i, separator[1]) % Len(separator) = 0}

\* _split_text_with_regex(text, separator, keep_separator=True): the
\* starts of the pieces.  re.split with the separator captured, each
\* separator joined to the text after it, empty pieces left out: a piece
\* starts at the first character and at every separator found
split_text_with_regex(text, separator) ==
    IF separator = <<>>
    THEN [i \in 1..Len(text) |-> i]
    ELSE Ascending((IF text = <<>> THEN {} ELSE {1})
                   \cup SplitPoints(text, separator))

\* the start of piece k; the position behind the text for the piece after
\* the last
Start(text, splits, k) == IF k > Len(splits) THEN Len(text) + 1 ELSE splits[k]
\* len(d) of piece k
PieceLen(text, splits, k) == Start(text, splits, k + 1) - Start(text, splits, k)
\* "".join of the pieces from to upto
Pieces(text, splits, from, upto) ==
    SubSeq(text, Start(text, splits, from), Start(text, splits, upto + 1) - 1)

\* _join_docs with separator "" of the pieces from to upto: no chunk when
\* nothing but white space is left
join_docs(text, splits, from, upto) ==
    LET doc == Strip(Pieces(text, splits, from, upto))
    IN  IF doc = <<>> THEN <<>> ELSE <<doc>>

\* mutant: no piece of the chunk just closed is carried into the next
pop_overlap_none(text, splits, from, d, size, overlap) == d

\* the while loop of _merge_splits, current_doc being the pieces from to
\* d - 1 and d the piece that did not fit: pieces are dropped from the
\* front until what is left fits into the overlap and leaves room for d.
\* The first piece that is kept, d when none is
pop_overlap(text, splits, from, d, size, overlap) ==
    from + Cardinality(
               {k \in from..(d - 1) :
                   \/ Start(text, splits, d) - Start(text, splits, k) > overlap
                   \/ /\ Start(text, splits, d + 1) - Start(text, splits, k) > size
                      /\ Start(text, splits, d) - Start(text, splits, k) > 0})

\* the for loop of _merge_splits over the pieces i to upto, current_doc
\* being the pieces from to i - 1: the pieces are appended up to the first
\* piece d with total + len(d) > chunk_size and current_doc not empty, the
\* chunk is closed there and the loop goes on with what pop_overlap kept
RECURSIVE merge_loop(_, _, _, _, _, _, _)
merge_loop(text, splits, from, i, upto, size, overlap) ==
    LET close(d) ==
            IF d > upto THEN join_docs(text, splits, from, upto)
            ELSE join_docs(text, splits, from, d - 1)
                 \o merge_loop(text, splits,
                               pop_overlap(text, splits, from, d, size, overlap),
                               d + 1, upto, size, overlap)
    IN  close(i + Cardinality(
                      {k \in i..upto :
                          ~(/\ Start(text, splits, k + 1) - Start(text, splits, from)
                                   > size
                            /\ k > from)}))

\* _merge_splits of the pieces from to upto
merge_splits(text, splits, from, upto, size, overlap) ==
    merge_loop(text, splits, from, from, upto, size, overlap)

\* the first separator of the list that the text contains ("" is in every
\* text)
FirstSeparator(text, separators) ==
    CHOOSE k \in 1..Len(separators) :
        /\ separators[k] = <<>> \/ Contains(text, separators[k])
        /\ \A j \in 1..(k - 1) :
               separators[j] # <<>> /\ ~Contains(text, separators[j])

\* _split_text and its loop over the pieces, from piece i on with
\* _good_splits empty: the pieces before the first one that is not shorter
\* than the chunk size are merged, that piece is split with the separators
\* that remain, or kept whole when none remains
RECURSIVE split_text_rec(_, _, _, _)
RECURSIVE split_loop(_, _, _, _, _, _)
split_loop(text, splits, i, new_separators, size, overlap) ==
    LET next(long) ==
            IF long > i
            THEN merge_splits(text, splits, i, long - 1, size, overlap)
                 \o split_loop(text, splits, long, new_separators, size, overlap)
            ELSE (IF new_separators = <<>> THEN <<Pieces(text, splits, i, i)>>
                  ELSE split_text_rec(Pieces(text, splits, i, i), new_separators,
                                      size, overlap))
                 \o split_loop(text, splits, i + 1, new_separators, size, overlap)
    IN  IF i > Len(splits) THEN <<>>
        ELSE next(SetMin({k \in i..Len(splits) : PieceLen(text, splits, k) >= size}
                         \cup {Len(splits) + 1}))

split_text_rec(text, separators, size, overlap) ==
    LET k == FirstSeparator(text, separators)
        separator == separators[k]
        new_separators == IF separator = <<>> THEN <<>>
                          ELSE SubSeq(separators, k + 1, Len(separators))
    IN  split_loop(text, split_text_with_regex(text, separator), 1,
                   new_separators, size, overlap)

\* text_splitter.split_text(text)
split_text(text, size, overlap) == split_text_rec(text, Separators, size, overlap)

get_text_chunks(raw_text) == split_text(raw_text, CHUNK_SIZE, CHUNK_OVERLAP)

(***************************************************************************)
(* vector_store.py.  The collection is the Weaviate class "Document":     *)
(* cls says whether the class exists, ds is the sequence of the contents  *)
(* of its records.  Every operation returns the outcome, the collection   *)
(* after it and the external calls it made.                                *)
(***************************************************************************)
StoreResult(ok, error, cls, ds, calls) ==
    [ok |-> ok, error |-> error, classExists |-> cls, docs |-> ds, calls |-> calls]

\* the environment variables get_weaviate_client and healthcheck require
RequiredEnv == {"WEAVIATE_URL", "OPENAI_API_KEY"}

ConnectionError == Exception(<<"Weaviate did not start up">>)
ValueError(name) == Exception(<<name, " environment variable is not set">>)
EmbeddingError == Exception(<<"embedding request failed">>)
ChatError == Exception(<<"chat completion failed">>)
ClassNotFound == Exception(<<"could not find class Document">>)
QueryError == Exception(<<"Error during query: ">>)
NoError == Exception(<<>>)

\* get_weaviate_client: raises when a required variable is not set (env is
\* the set of the variables that are set), and when the server cannot be
\* reached
get_weaviate_client(fault) ==
    IF "WEAVIATE_URL" \notin env
    THEN [ok |-> FALSE, error |-> ValueError("WEAVIATE_URL"), calls |-> <<>>]
    ELSE IF "OPENAI_API_KEY" \notin env
    THEN [ok |-> FALSE, error |-> ValueError("OPENAI_API_KEY"), calls |-> <<>>]
    ELSE IF fault = "store"
    THEN [ok |-> FALSE, error |-> ConnectionError, calls |-> <<"connect failed">>]
    ELSE [ok |-> TRUE, error |-> NoError, calls |-> <<"connect">>]

\* the outcome of the batch: the collection after it and the calls made
BatchResult(ok, error, ds, calls) ==
    [ok |-> ok, error |-> error, docs |-> ds, calls |-> calls]

\* mutant: when the block is left by an exception the pending objects are
\* dropped
batch_exit_rollback(pending, ds, write_fails, calls, raised) ==
    IF raised # NoError
    THEN BatchResult(FALSE, raised, ds, calls \o <<"flush">>)
    ELSE IF pending # <<>> /\ write_fails
    THEN BatchResult(FALSE, ConnectionError, ds, calls \o <<"flush failed">>)
    ELSE BatchResult(TRUE, NoError, ds \o pending, calls \o <<"flush">>)

\* leaving "with client.batch as batch": the batch flushes the objects added
\* so far, whether the block ended or raised (raised is the exception of
\* the block, NoError when it ended); a flush that has objects to write and
\* cannot write them raises
batch_exit(pending, ds, write_fails, calls, raised) ==
    IF pending # <<>> /\ write_fails
    THEN BatchResult(FALSE, ConnectionError, ds, calls \o <<"flush failed">>)
    ELSE BatchResult(raised = NoError, raised, ds \o pending,
                     calls \o <<"flush">>)

\* the loop over the chunks inside the block, from chunk i on: one
\* embed_query and one add_data_object per chunk; embed_at is the chunk
\* whose embed_query raises (0: none).  The chunk lists of the model are
\* shorter than batch_size, so nothing is written before the block is left.
RECURSIVE batch_loop(_, _, _, _, _, _, _)
batch_loop(chunks, i, pending, ds, embed_at, write_fails, calls) ==
    IF i > Len(chunks)
    THEN batch_exit(pending, ds, write_fails, calls, NoError)
    ELSE IF i = embed_at
    THEN batch_exit(pending, ds, write_fails, calls \o <<"embed failed">>,
                    EmbeddingError)
    ELSE batch_loop(chunks, i + 1, Append(pending, chunks[i]), ds, embed_at,
                    write_fails, calls \o <<"embed", "add_data_object">>)

\* create_vector_store with the failures of its calls spelled out
store_chunks(chunks, fault, embed_at, write_fails, cls, ds) ==
    IF ~get_weaviate_client(fault).ok
    THEN \* get_weaviate_client() raises, outside the try block
         StoreResult(FALSE, get_weaviate_client(fault).error, cls, ds,
                     get_weaviate_client(fault).calls)
    ELSE \* create_class: "already exists" is logged and ignored
         LET batch == batch_loop(chunks, 1, <<>>, ds, embed_at, write_fails,
                                 <<"connect", "create_class">>)
         IN  StoreResult(batch.ok, batch.error, TRUE, batch.docs, batch.calls)

\* mutant: the class is created anew, the records it held are gone
create_vector_store_overwrite(chunks, fault, cls, ds) ==
    store_chunks(chunks, fault, IF fault = "embed" THEN 1 ELSE 0, FALSE, cls, <<>>)

\* create_vector_store as the handlers see it fail: the embedding service
\* fails from the first chunk on
create_vector_store(chunks, fault, cls, ds) ==
    store_chunks(chunks, fault, IF fault = "embed" THEN 1 ELSE 0, FALSE, cls, ds)

\* mutant: success is reported and the class is left as it is
delete_all_documents_keeps(fault, cls, ds, strict) ==
    IF ~get_weaviate_client(fault).ok
    THEN StoreResult(FALSE, get_weaviate_client(fault).error, cls, ds,
                     get_weaviate_client(fault).calls)
    ELSE IF ~cls /\ strict
    THEN StoreResult(FALSE, ClassNotFound, cls, ds,
                     <<"connect", "delete_class failed">>)
    ELSE StoreResult(TRUE, NoError, cls, ds, <<"connect", "delete_class">>)

\* client.schema.delete_class("Document"): a server that reports a missing
\* class as an error (strict) makes delete_class raise
delete_all_documents(fault, cls, ds, strict) ==
    IF ~get_weaviate_client(fault).ok
    THEN StoreResult(FALSE, get_weaviate_client(fault).error, cls, ds,
                     get_weaviate_client(fault).calls)
    ELSE IF ~cls /\ strict
    THEN StoreResult(FALSE, ClassNotFound, cls, ds,
                     <<"connect", "delete_class failed">>)
    ELSE StoreResult(TRUE, NoError, FALSE, <<>>, <<"connect", "delete_class">>)

(***************************************************************************)
(* utils.py: retrieval and process_query.                                  *)
(***************************************************************************)
TOP_K == 3

\* the similarity the store and the embeddings assign to a query and a
\* chunk (higher is more similar)
Similarity(query, content) ==
    LET d == Len(query) - Len(content)
    IN  CHUNK_SIZE - (IF d < 0 THEN 0 - d ELSE d)

RemoveAt(s, i) == SubSeq(s, 1, i - 1) \o SubSeq(s, i + 1, Len(s))

\* with_near_vector(...).with_limit(k): the k most similar records, the
\* most similar first
RECURSIVE similarity_search_with_score(_, _, _)
similarity_search_with_score(query, ds, k) ==
    IF k = 0 \/ ds = <<>> THEN <<>>
    ELSE LET best == CHOOSE i \in 1..Len(ds) :
                 \A j \in 1..Len(ds) :
                     \/ Similarity(query, ds[i]) > Similarity(query, ds[j])
                     \/ Similarity(query, ds[i]) = Similarity(query, ds[j]) /\ i <= j
         IN  <<[content |-> ds[best],
                relevance_score |-> Similarity(query, ds[best])]>>
             \o similarity_search_with_score(query, RemoveAt(ds, best), k - 1)

\* scored_contexts.sort(key=relevance_score, reverse=True): stable
RECURSIVE SortByScore(_)
SortByScore(s) ==
    IF s = <<>> THEN <<>>
    ELSE LET best == CHOOSE i \in 1..Len(s) :
                 \A j \in 1..Len(s) :
                     \/ s[i].relevance_score > s[j].relevance_score
                     \/ s[i].relevance_score = s[j].relevance_score /\ i <= j
         IN  <<s[best]>> \o SortByScore(RemoveAt(s, best))

\* mutant: the list is sorted with the lowest score first
Reverse(s) == [i \in 1..Len(s) |-> s[Len(s) + 1 - i]]
retrieve_context_ascending(query, ds, top_k) ==
    Reverse(SortByScore(similarity_search_with_score(query, ds, top_k)))

retrieve_context_with_scoring(query, ds, top_k) ==
    SortByScore(similarity_search_with_score(query, ds, top_k))

QueryResult(ok, error, response, context, calls) ==
    [ok |-> ok, error |-> error, response |-> response, context |-> context,
     calls |-> calls]

\* the answer of the chat model to a question over the documents the chain
\* retrieved
Contents(scored) == [i \in 1..Len(scored) |-> scored[i].content]
LLMAnswer(query, source_documents) == <<"answer">> \o source_documents

process_query(query, fault, cls, ds) ==
    IF ~get_weaviate_client(fault).ok
    THEN QueryResult(FALSE, get_weaviate_client(fault).error, <<>>, <<>>,
                     get_weaviate_client(fault).calls)
    ELSE IF fault = "embed"
    THEN QueryResult(FALSE, EmbeddingError, <<>>, <<>>,
                     <<"connect", "connect", "embed failed">>)
    ELSE IF ~cls
    THEN QueryResult(FALSE, QueryError, <<>>, <<>>,
                     <<"connect", "connect", "embed", "near_vector failed">>)
    ELSE LET context_results == retrieve_context_with_scoring(query, ds, TOP_K)
             source_documents ==
                 Contents(similarity_search_with_score(query, ds, TOP_K))
             retrieval == <<"connect", "connect", "embed", "near_vector",
                            "embed", "near_vector">>
         IN  IF fault = "llm"
             THEN QueryResult(FALSE, ChatError, <<>>, <<>>,
                              retrieval \o <<"chat failed">>)
             ELSE QueryResult(TRUE, NoError, LLMAnswer(query, source_documents),
                              context_results, retrieval \o <<"chat">>)

(***************************************************************************)
(* main.py: the protected handlers.  Each returns the response and the    *)
(* collection after the request.                                           *)
(***************************************************************************)
Handled(resp, cls, ds) == [resp |-> resp, classExists |-> cls, docs |-> ds]

ReadResult(ok, exc, combined_text, processed_files) ==
    [ok |-> ok, exc |-> exc, combined_text |-> combined_text,
     processed_files |-> processed_files]

\* mutant: a file whose text cannot be extracted is skipped and the rest
\* of the request is processed
RECURSIVE ReadFiles_skip_unreadable(_, _, _, _, _)
ReadFiles_skip_unreadable(files, i, combined_text, processed_files, t) ==
    IF i > Len(files) THEN ReadResult(TRUE, NoError, combined_text, processed_files)
    ELSE LET file == files[i]
             supported == endswith(file.filename, ".pdf")
                          \/ endswith(file.filename, ".md")
         IN  IF ~supported
             THEN ReadResult(FALSE,
                      HTTPException(400, <<"Unsupported file type: ">> \o file.filename),
                      combined_text, processed_files)
             ELSE IF ~file.readable
             THEN ReadFiles_skip_unreadable(files, i + 1, combined_text,
                                            processed_files, t)
             ELSE LET combined == combined_text \o file.text
                      processed == preprocess(combined)
                  IN  ReadFiles_skip_unreadable(files, i + 1, combined,
                                Append(processed_files,
                                       [filename |-> file.filename,
                                        processed_at |-> t,
                                        metadata |-> processed.metadata]),
                                t)

\* mutant: the text of a file is put in front of the text read so far
RECURSIVE ReadFiles_prepend(_, _, _, _, _)
ReadFiles_prepend(files, i, combined_text, processed_files, t) ==
    IF i > Len(files) THEN ReadResult(TRUE, NoError, combined_text, processed_files)
    ELSE LET file == files[i]
             supported == endswith(file.filename, ".pdf")
                          \/ endswith(file.filename, ".md")
         IN  IF ~supported
             THEN ReadResult(FALSE,
                      HTTPException(400, <<"Unsupported file type: ">> \o file.filename),
                      combined_text, processed_files)
             ELSE IF ~file.readable
             THEN ReadResult(FALSE, Exception(<<"cannot extract text">>),
                             combined_text, processed_files)
             ELSE LET combined == file.text \o combined_text
                      processed == preprocess(combined)
                  IN  ReadFiles_prepend(files, i + 1, combined,
                                Append(processed_files,
                                       [filename |-> file.filename,
                                        processed_at |-> t,
                                        metadata |-> processed.metadata]),
                                t)

\* mutant: the metadata of a file is computed from its own text
RECURSIVE ReadFiles_own_metadata(_, _, _, _, _)
ReadFiles_own_metadata(files, i, combined_text, processed_files, t) ==
    IF i > Len(files) THEN ReadResult(TRUE, NoError, combined_text, processed_files)
    ELSE LET file == files[i]
             supported == endswith(file.filename, ".pdf")
                          \/ endswith(file.filename, ".md")
         IN  IF ~supported
             THEN ReadResult(FALSE,
                      HTTPException(400, <<"Unsupported file type: ">> \o file.filename),
                      combined_text, processed_files)
             ELSE IF ~file.readable
             THEN ReadResult(FALSE, Exception(<<"cannot extract text">>),
                             combined_text, processed_files)
             ELSE LET combined == combined_text \o file.text
                      processed == preprocess(file.text)
                  IN  ReadFiles_own_metadata(files, i + 1, combined,
                                Append(processed_files,
                                       [filename |-> file.filename,
                                        processed_at |-> t,
                                        metadata |-> processed.metadata]),
                                t)

\* the loop over the files of upload_documents, from file i on
RECURSIVE ReadFiles(_, _, _, _, _)
ReadFiles(files, i, combined_text, processed_files, t) ==
    IF i > Len(files) THEN ReadResult(TRUE, NoError, combined_text, processed_files)
    ELSE LET file == files[i]
             supported == endswith(file.filename, ".pdf")
                          \/ endswith(file.filename, ".md")
         IN  IF ~supported
             THEN ReadResult(FALSE,
                      HTTPException(400, <<"Unsupported file type: ">> \o file.filename),
                      combined_text, processed_files)
             ELSE IF ~file.readable
             THEN ReadResult(FALSE, Exception(<<"cannot extract text">>),
                             combined_text, processed_files)
             ELSE LET combined == combined_text \o file.text
                      processed == preprocess(combined)
                  IN  ReadFiles(files, i + 1, combined,
                                Append(processed_files,
                                       [filename |-> file.filename,
                                        processed_at |-> t,
                                        metadata |-> processed.metadata]),
                                t)

\* upload_documents after the loop over the files, read being what the loop
\* left: every exception raised inside the outer try, an HTTPException
\* included, is answered as 500 with str(e) as detail
upload_respond(read, fault, cls, ds) ==
    LET respond(stored) ==
            IF ~stored.ok
            THEN Handled(
                     HTTPError(500,
                               Str(HTTPException(500, <<"Failed to store vectors">>)),
                               NoHeaders, stored.calls),
                     stored.classExists, stored.docs)
            ELSE Handled(
                     Response(200, <<>>, NoHeaders,
                              [status |-> "success",
                               message |-> <<"Processed ",
                                             ToString(Len(read.processed_files)),
                                             " files">>,
                               processed_files |-> read.processed_files],
                              stored.calls),
                     stored.classExists, stored.docs)
        store(chunks) == respond(create_vector_store(chunks, fault, cls, ds))
    IN  IF ~read.ok
        THEN Handled(HTTPError(500, Str(read.exc), NoHeaders, <<>>), cls, ds)
        ELSE store(get_text_chunks(read.combined_text))

\* upload_documents when no file.read() suspends the handler: the whole
\* request at the time t
upload_documents(files, fault, t, cls, ds) ==
    upload_respond(ReadFiles(files, 1, <<>>, <<>>, t), fault, cls, ds)

query_documents(query, fault, cls, ds) ==
    LET result == process_query(query, fault, cls, ds)
    IN  IF ~result.ok
        THEN Handled(HTTPError(500, Str(result.error), NoHeaders, result.calls),
                     cls, ds)
        ELSE Handled(Response(200, <<>>, NoHeaders,
                              [status |-> "success",
                               response |-> result.response,
                               context |-> result.context],
                              result.calls),
                     cls, ds)

\* delete_documents returns nothing after delete_all_documents() returned
delete_documents(fault, cls, ds, strict) ==
    LET deleted == delete_all_documents(fault, cls, ds, strict)
    IN  IF ~deleted.ok
        THEN Handled(HTTPError(500, Str(deleted.error), NoHeaders, deleted.calls),
                     deleted.classExists, deleted.docs)
        ELSE Handled(Response(200, <<>>, NoHeaders, NoBody, deleted.calls),
                     deleted.classExists, deleted.docs)

(***************************************************************************)
(* main.py: healthcheck.  storeDown and embedDown say whether Weaviate    *)
(* and the embedding API fail while the probes run.                        *)
(***************************************************************************)
\* .with_limit(100) of the document count
HEALTH_LIMIT == 100

Min(a, b) == IF a < b THEN a ELSE b
Max(a, b) == IF a > b THEN a ELSE b

\* what get_meta() answers: the version of the server, which an answer may
\* lack
ServerMetas == {[version |-> "1.23.7", hostname |-> "weaviate"],
                [hostname |-> "weaviate"]}

\* weaviate_health.get("version", "unknown")
MetaVersion(meta) ==
    IF "version" \in DOMAIN meta THEN meta.version ELSE "unknown"

\* probe 1: get_weaviate_client(), get_meta() and the count of the records;
\* a missing class answers without data and counts as 0 records
weaviate_probe(storeDown, meta, cls, ds) ==
    LET client == get_weaviate_client(IF storeDown THEN "store" ELSE "none")
    IN  IF ~client.ok
        THEN [status |-> "error", error |-> Str(client.error)]
        ELSE [status |-> "ok", version |-> MetaVersion(meta),
              document_count |-> IF cls THEN Min(Len(ds), HEALTH_LIMIT) ELSE 0]

\* the calls probe 1 makes
weaviate_probe_calls(storeDown) ==
    LET client == get_weaviate_client(IF storeDown THEN "store" ELSE "none")
    IN  IF client.ok THEN client.calls \o <<"get_meta", "get">> ELSE client.calls

\* probe 2: OpenAIEmbeddings() needs the API key, embed_query("test") the
\* service
openai_probe(embedDown) ==
    IF "OPENAI_API_KEY" \notin env
    THEN [status |-> "error", error |-> <<"OPENAI_API_KEY is not set">>]
    ELSE IF embedDown
    THEN [status |-> "error", error |-> Str(EmbeddingError)]
    ELSE [status |-> "ok", model |-> "text-embedding-ada-002"]

\* the calls probe 2 makes
openai_probe_calls(embedDown) ==
    IF "OPENAI_API_KEY" \notin env THEN <<>>
    ELSE IF embedDown THEN <<"embed failed">>
    ELSE <<"embed">>

\* section 3: what psutil and platform report; NoSystem when one of their
\* calls raises
SystemInfo == [cpu_usage |-> "12.5%", memory_usage |-> "40.0%",
               disk_usage |-> "55.0%", python_version |-> "3.11",
               platform |-> "Linux"]
NoSystem == [raised |-> "psutil.Error"]
SystemReports == {SystemInfo, NoSystem}

\* the outer except: 500 with a detail that holds the status "error", the
\* time and the message
HealthError(t, calls) ==
    HTTPError(500, [status |-> "error", timestamp |-> t,
                    error |-> <<NoSystem.raised>>],
              NoHeaders, calls)

\* mutant: one try block around both probes, the first failure ends the check
healthcheck_one_try(storeDown, embedDown, meta, system, t, cls, ds) ==
    LET weaviate == weaviate_probe(storeDown, meta, cls, ds)
        openai == openai_probe(embedDown)
        missing_vars == RequiredEnv \ env
    IN  IF weaviate.status = "error"
        THEN Response(200, <<>>, NoHeaders,
                      [status |-> "degraded", timestamp |-> t,
                       components |-> [weaviate |-> weaviate],
                       system |-> system,
                       environment |->
                           [status |-> IF missing_vars = {} THEN "ok" ELSE "error",
                            missing_variables |-> missing_vars]],
                      weaviate_probe_calls(storeDown))
        ELSE Response(200, <<>>, NoHeaders,
                      [status |-> IF openai.status = "error"
                                  THEN "degraded" ELSE "ok",
                       timestamp |-> t,
                       components |-> [weaviate |-> weaviate, openai |-> openai],
                       system |-> system,
                       environment |->
                           [status |-> IF missing_vars = {} THEN "ok" ELSE "error",
                            missing_variables |-> missing_vars]],
                      weaviate_probe_calls(storeDown)
                          \o openai_probe_calls(embedDown))

\* healthcheck: each probe in its own try block; a failed probe sets the
\* overall status to "degraded"; the system section is filled from psutil
\* and platform, whose failure is answered 500 by the outer except; the
\* environment check fills its own section and leaves the overall status
\* alone
healthcheck(storeDown, embedDown, meta, system, t, cls, ds) ==
    LET weaviate == weaviate_probe(storeDown, meta, cls, ds)
        openai == openai_probe(embedDown)
        missing_vars == RequiredEnv \ env
        calls == weaviate_probe_calls(storeDown) \o openai_probe_calls(embedDown)
    IN  IF system = NoSystem
        THEN HealthError(t, calls)
        ELSE Response(200, <<>>, NoHeaders,
                      [status |-> IF weaviate.status = "error"
                                     \/ openai.status = "error"
                                  THEN "degraded" ELSE "ok",
                       timestamp |-> t,
                       components |-> [weaviate |-> weaviate, openai |-> openai],
                       system |-> system,
                       environment |->
                           [status |-> IF missing_vars = {} THEN "ok" ELSE "error",
                            missing_variables |-> missing_vars]],
                      calls)

(***************************************************************************)
(* The state machine.                                                      *)
(*   now          the clock, in minutes                                    *)
(*   issued       the tokens login has handed out, each with its time of   *)
(*                issue (held by the clients; the server stores none)      *)
(*   classExists  whether the class "Document" exists in Weaviate          *)
(*   docs         the contents of the records of the class                 *)
(*   strictDelete whether the Weaviate server answers the deletion of a    *)
(*                missing class with an error                              *)
(*   env          the required environment variables that are set          *)
(*   workers      the requests being handled concurrently, each with the   *)
(*                step it has reached and what it has read so far          *)
(*   session      the Streamlit session of the frontend (app.py): its      *)
(*                session state and what the last script run did           *)
(*   reading      the uploads suspended in file.read(), each with the      *)
(*                files it has processed so far                            *)
(*   last         the request received or answered last, with its response *)
(*                once it has one                                          *)
(***************************************************************************)
NoInput == [none |-> TRUE]

Request(endpoint, auth, input, t, resp) ==
    [endpoint |-> endpoint, auth |-> auth, input |-> input, at |-> t,
     status |-> resp.status, detail |-> resp.detail, headers |-> resp.headers,
     body |-> resp.body, calls |-> resp.calls]

Usernames == {SeededEmail, UnknownEmail}
Passwords == {SeededPassword, "letmein"}

\* an expiry no clock value of the model reaches
FarExp == MaxTime + LOGIN_EXPIRE_MINUTES

\* tokens presented without having been issued by login: a malformed one,
\* one signed with another key, and two signed with the secret whose
\* subject is missing or unknown
Token(wf, key, sub, exp) == [wf |-> wf, key |-> key, sub |-> sub, exp |-> exp]
ForgedTokens ==
    {Token(FALSE, SECRET_KEY, SeededEmail, FarExp),
     Token(TRUE, OtherKey, SeededEmail, FarExp),
     Token(TRUE, SECRET_KEY, NoSub, FarExp),
     Token(TRUE, SECRET_KEY, UnknownEmail, FarExp)}

\* the Authorization headers a client can send
ClientAuths == {<<>>} \cup {<<tok>> : tok \in ForgedTokens}
               \cup {<<i.token>> : i \in issued}

Protected == {"upload", "query", "delete"}

\* the requests handled at the same time (uvicorn runs the handlers of
\* different requests concurrently); a worker that handles none is idle
Workers == {"w1", "w2"}
Idle == [op |-> "idle", step |-> "idle", input |-> NoInput, seen |-> 0,
         context |-> <<>>, sources |-> <<>>, response |-> <<>>, status |-> 0]

\* app.py: the session before the first script run: no token, no file
\* chosen, no result kept, nothing shown
NoSession == [token |-> <<>>, uploaded_files |-> <<>>,
              last_process_result |-> <<>>, event |-> "none",
              shown |-> <<>>, sent |-> <<>>, raised |-> <<>>]

Init ==
    /\ now = 0
    /\ issued = {}
    /\ classExists = FALSE
    /\ docs = <<>>
    /\ strictDelete \in BOOLEAN
    /\ env \in SUBSET RequiredEnv
    /\ workers = [w \in Workers |-> Idle]
    /\ session = NoSession
    /\ reading = <<>>
    /\ last = Request("none", <<>>, NoInput, 0,
                      Response(0, <<>>, NoHeaders, NoBody, <<>>))

\* the response of a request that has not been answered yet
Pending == Response(0, <<>>, NoHeaders, NoBody, <<>>)

Tick ==
    /\ now + TickMinutes <= MaxTime
    /\ now' = now + TickMinutes
    /\ UNCHANGED <<issued, classExists, docs, strictDelete, env, workers, session, reading, last>>

Login ==
    \E username \in Usernames, password \in Passwords :
        LET resp == login(username, password, now)
            handed == IF resp.status = 200
                      THEN issued \cup {[token |-> resp.body.access_token, at |-> now]}
                      ELSE issued
        IN  /\ Cardinality(handed) <= MaxTokens
            /\ issued' = handed
            /\ last' = Request("token", <<>>,
                               [username |-> username, password |-> password],
                               now, resp)
            /\ UNCHANGED <<now, classExists, docs, strictDelete, env, workers, session, reading>>

\* Depends(get_current_user): the framework resolves the dependency first;
\* when it raises, the 401 is the response and the handler is not called
Rejected(endpoint, auth) ==
    /\ ~get_current_user(auth, now).ok
    /\ last' = Request(endpoint, auth, NoInput, now,
                       Unauthorized(get_current_user(auth, now)))
    /\ UNCHANGED <<now, issued, classExists, docs, strictDelete, env, workers, session, reading>>

Accepted(endpoint, auth, input, h) ==
    /\ get_current_user(auth, now).ok
    /\ Len(h.docs) <= Max(MaxDocs, Len(docs))
    /\ classExists' = h.classExists
    /\ docs' = h.docs
    /\ last' = Request(endpoint, auth, input, now, h.resp)
    /\ UNCHANGED <<now, issued, strictDelete, env, workers, session, reading>>

\* the first file after file j that was rolled to disk; Len(files) + 1 when
\* there is none
NextSpooled(files, j) ==
    LET later == {k \in (j + 1)..Len(files) : files[k].spooled}
    IN  IF later = {} THEN Len(files) + 1
        ELSE CHOOSE k \in later : \A m \in later : k <= m

\* the passes of the loop for the files from..n - 1, which the handler runs
\* at the time t without returning to the event loop
ReadOn(files, from, n, combined_text, processed_files, t) ==
    ReadFiles(SubSeq(files, from, n - 1), 1, combined_text, processed_files, t)

\* after the passes that left read the handler waits for the read of file n
Suspends(files, n, read) == read.ok /\ n <= Len(files)

\* the handler suspended in "content = await file.read()" of file n
Suspended(auth, files, at, n, read) ==
    [auth |-> auth, files |-> files, at |-> at, i |-> n,
     combined_text |-> read.combined_text,
     processed_files |-> read.processed_files]

\* POST /upload arrives: the token is checked and the handler runs until it
\* waits for the read of a file that was rolled to disk, or, when none of
\* the files it gets to was, to its end
UploadReceive(lists, faults) ==
    \E auth \in ClientAuths :
        \/ Rejected("upload", auth)
        \/ \E files \in lists :
               LET enter(n, read) ==
                       IF Suspends(files, n, read)
                       THEN /\ Len(reading) < MaxInFlight
                            /\ reading' = Append(reading,
                                   Suspended(auth, files, now, n, read))
                            /\ last' = Request("upload", auth, [files |-> files],
                                               now, Pending)
                            /\ UNCHANGED <<now, issued, classExists, docs,
                                           strictDelete, env, workers, session>>
                       ELSE \E fault \in faults :
                                Accepted("upload", auth, [files |-> files],
                                         upload_respond(read, fault, classExists,
                                                        docs))
                   from(n) == enter(n, ReadOn(files, 1, n, <<>>, <<>>, now))
               IN  /\ get_current_user(auth, now).ok
                   /\ from(NextSpooled(files, 0))

\* the state after the handler of the suspended upload k has answered
Answered(k, h) ==
    /\ Len(h.docs) <= Max(MaxDocs, Len(docs))
    /\ classExists' = h.classExists
    /\ docs' = h.docs
    /\ last' = Request("upload", reading[k].auth, [files |-> reading[k].files],
                       reading[k].at, h.resp)
    /\ reading' = SubSeq(reading, 1, k - 1) \o SubSeq(reading, k + 1, Len(reading))
    /\ UNCHANGED <<now, issued, strictDelete, env, workers, session>>

\* file.read() of a suspended upload returned: its handler runs on, at the
\* time it is resumed, until it waits for the next read of a file rolled to
\* disk, or to its end: a pass of the loop that raises, or the last pass
\* followed by the chunking, the storing and the response
UploadResume(faults) ==
    \E k \in 1..Len(reading) :
        LET resume(r, n, read) ==
                IF Suspends(r.files, n, read)
                THEN /\ reading' = [reading EXCEPT ![k] =
                                       Suspended(r.auth, r.files, r.at, n, read)]
                     /\ UNCHANGED <<now, issued, classExists, docs, strictDelete,
                                    env, workers, session, last>>
                ELSE \E fault \in faults :
                         Answered(k, upload_respond(read, fault, classExists, docs))
            from(r, n) ==
                resume(r, n, ReadOn(r.files, r.i, n, r.combined_text,
                                    r.processed_files, now))
        IN  from(reading[k], NextSpooled(reading[k].files, reading[k].i))

\* POST /upload, a step at a time: the token check and the entry into the
\* handler, then one step for each return of a file.read() that suspended
\* it; between the steps the clock may advance and other requests may be
\* handled, and the collection is read and written only in the last one
UploadFrom(lists, faults) == UploadReceive(lists, faults) \/ UploadResume(faults)

Upload == UploadFrom(FileLists, UploadFaults)

QueryWith(queries, faults) ==
    \E auth \in ClientAuths :
        \/ Rejected("query", auth)
        \/ \E query \in queries, fault \in faults :
               Accepted("query", auth, [query |-> query],
                        query_documents(query, fault, classExists, docs))

Query == QueryWith(Queries, Faults)

DeleteWith(faults) ==
    \E auth \in ClientAuths :
        \/ Rejected("delete", auth)
        \/ \E fault \in faults :
               Accepted("delete", auth, NoInput,
                        delete_documents(fault, classExists, docs, strictDelete))

Delete == DeleteWith(DeleteFaults)

\* GET /healthcheck needs no token
Healthcheck ==
    \E storeDown \in BOOLEAN, embedDown \in BOOLEAN, meta \in ServerMetas,
       system \in SystemReports :
        /\ last' = Request("healthcheck", <<>>,
                           [storeDown |-> storeDown, embedDown |-> embedDown,
                            meta |-> meta, system |-> system],
                           now, healthcheck(storeDown, embedDown, meta, system,
                                            now, classExists, docs))
        /\ UNCHANGED <<now, issued, classExists, docs, strictDelete, env,
                       workers, session, reading>>

\* the whole program: every request with every input, in a process started
\* with any environment; the specifications that follow take it a part at
\* a time, each with the inputs of the requests it is about
Next == Tick \/ Login \/ Upload \/ Query \/ Delete \/ Healthcheck

Spec == Init /\ [][Next]_vars

(***************************************************************************)
(* The clock and the tokens: every request of the API in a process with    *)
(* its environment set, with one upload, one question and no failing call. *)
(***************************************************************************)
InitAuth ==
    /\ now = 0
    /\ issued = {}
    /\ classExists = FALSE
    /\ docs = <<>>
    /\ strictDelete = FALSE
    /\ env = RequiredEnv
    /\ workers = [w \in Workers |-> Idle]
    /\ session = NoSession
    /\ reading = <<>>
    /\ last = Request("none", <<>>, NoInput, 0,
                      Response(0, <<>>, NoHeaders, NoBody, <<>>))

AuthFileLists == {<<PdfFile>>}
NoFault == {"none"}

NextAuth ==
    \/ Tick
    \/ Login
    \/ UploadFrom(AuthFileLists, NoFault)
    \/ QueryWith({<<Char>>}, NoFault)
    \/ DeleteWith(NoFault)

SpecAuth == InitAuth /\ [][NextAuth]_vars

(***************************************************************************)
(* The documents: every upload, question, deletion and health check, with  *)
(* their failing calls, at one time of the clock.                          *)
(***************************************************************************)
InitDocuments ==
    /\ now = 0
    /\ issued = {}
    /\ classExists = FALSE
    /\ docs = <<>>
    /\ strictDelete \in BOOLEAN
    /\ env = RequiredEnv
    /\ workers = [w \in Workers |-> Idle]
    /\ session = NoSession
    /\ reading = <<>>
    /\ last = Request("none", <<>>, NoInput, 0,
                      Response(0, <<>>, NoHeaders, NoBody, <<>>))

NextDocuments == Login \/ Upload \/ Query \/ Delete \/ Healthcheck

SpecDocuments == InitDocuments /\ [][NextDocuments]_vars

(***************************************************************************)
(* The health check in a process started with any of the required          *)
(* environment variables missing or set.                                   *)
(***************************************************************************)
InitHealth ==
    /\ now = 0
    /\ issued = {}
    /\ classExists = FALSE
    /\ docs = <<>>
    /\ strictDelete = FALSE
    /\ env \in SUBSET RequiredEnv
    /\ workers = [w \in Workers |-> Idle]
    /\ session = NoSession
    /\ reading = <<>>
    /\ last = Request("none", <<>>, NoInput, 0,
                      Response(0, <<>>, NoHeaders, NoBody, <<>>))

NextHealth == Tick \/ Healthcheck

SpecHealth == InitHealth /\ [][NextHealth]_vars

(***************************************************************************)
(* Retrieval over a collection that already holds records: the store       *)
(* outlives the process, so a run can start with any collection.           *)
(***************************************************************************)
MaxStored == 4
StoredChunks == {<<Char>>, <<Char, Char>>, <<Char, Char, Char>>}
Collections == UNION {[1..n -> StoredChunks] : n \in 0..MaxStored}

InitQuery ==
    /\ now = 0
    /\ issued = {}
    /\ classExists = TRUE
    /\ docs \in Collections
    /\ strictDelete = FALSE
    /\ env = RequiredEnv
    /\ workers = [w \in Workers |-> Idle]
    /\ session = NoSession
    /\ reading = <<>>
    /\ last = Request("none", <<>>, NoInput, 0,
                      Response(0, <<>>, NoHeaders, NoBody, <<>>))

NextQuery == Login \/ Query

SpecQuery == InitQuery /\ [][NextQuery]_vars

(***************************************************************************)
(* The splitter on its own, with the chunk size and the overlap of         *)
(* get_text_chunks: one text is split, either a text of up to MaxTextLen   *)
(* characters over letters, space and line end, or a text of words whose   *)
(* lengths lie about the overlap and the chunk size.                       *)
(***************************************************************************)
MaxTextLen == 3
Alphabet == {"a", "b", " ", "\n"}
ShortTexts == UNION {[1..n -> Alphabet] : n \in 0..MaxTextLen}

\* a word of n letters in which no letter comes back within seven places
Letters == <<"a", "b", "c", "d", "e", "f", "g">>
Word(n) == [i \in 1..n |-> Letters[(i % 7) + 1]]
\* lengths about the overlap, the chunk size and the lengths at which a
\* text without white space needs one chunk more
WordLens ==
    {1, CHUNK_OVERLAP - 1, CHUNK_OVERLAP, CHUNK_OVERLAP + 1,
     CHUNK_SIZE - CHUNK_OVERLAP, CHUNK_SIZE - 1, CHUNK_SIZE, CHUNK_SIZE + 1,
     2 * CHUNK_SIZE - CHUNK_OVERLAP, 2 * CHUNK_SIZE - CHUNK_OVERLAP + 1,
     3 * CHUNK_SIZE - 2 * CHUNK_OVERLAP + 1}
\* the white space between two words
Gaps == {<<" ">>, <<"\n">>, <<"\n", "\n">>, <<" ", " ">>, <<"\n", "\n", "\n">>}
\* a text of MaxWords words at most, each of the same length
MaxWords == 8
RECURSIVE Prose(_, _)
Prose(n, k) == IF k = 1 THEN Word(n) ELSE Prose(n, k - 1) \o <<" ">> \o Word(n)
ProseLens == {CHUNK_OVERLAP \div 2 - 1, CHUNK_OVERLAP - 1, CHUNK_OVERLAP,
              CHUNK_SIZE \div 2 - 1}
InitChunk ==
    /\ now = 0
    /\ issued = {}
    /\ classExists = FALSE
    /\ docs = <<>>
    /\ strictDelete = FALSE
    /\ env = RequiredEnv
    /\ workers = [w \in Workers |-> Idle]
    /\ session = NoSession
    /\ reading = <<>>
    /\ last = Request("none", <<>>, NoInput, 0,
                      Response(0, <<>>, NoHeaders, NoBody, <<>>))

\* get_text_chunks(text) is called and what it returns is recorded
Split(text) ==
    /\ last' = Request("split_text", <<>>, [text |-> text], now,
                       Response(0, <<>>, NoHeaders,
                                [chunks |-> get_text_chunks(text)], <<>>))
    /\ UNCHANGED <<now, issued, classExists, docs, strictDelete, env, workers, session, reading>>

\* one call, of a short text, of a word, of two words with white space
\* between them, or of words of one length with single spaces
SplitText ==
    /\ last.endpoint = "none"
    /\ \/ \E text \in ShortTexts : Split(text)
       \/ \E n \in WordLens : Split(Word(n))
       \/ \E n \in WordLens, m \in WordLens, gap \in Gaps :
              Split(Word(n) \o gap \o Word(m))
       \/ \E n \in ProseLens, k \in 3..MaxWords : Split(Prose(n, k))

NextChunk == SplitText

SpecChunk == InitChunk /\ [][NextChunk]_vars

(***************************************************************************)
(* Uploads of markdown files whose text holds upper case letters, runs of  *)
(* white space and several sentences, alone or with a file that cannot be  *)
(* processed.                                                              *)
(***************************************************************************)
\* the example of extract_metadata (preprocessing.py:31-33): three
\* sentences, eleven tokens
SentencesText ==
    <<"H", "e", "l", "l", "o", " ", "t", "h", "e", "r", "e", "!", " ", "H",
      "o", "w", " ", "a", "r", "e", " ", "y", "o", "u", "?", " ", "I", "'",
      "m", " ", "g", "o", "o", "d", ".">>
MixedTexts == {<<"x">>, <<"X", "!", " ", "x">>}
\* the file of the lower case text is one that was rolled to disk
MixedFiles == {[filename |-> <<"m", ".md">>, text |-> text, readable |-> TRUE,
                spooled |-> (text = <<"x">>)] : text \in MixedTexts}
SentencesFile == [filename |-> <<"s", ".md">>, text |-> SentencesText,
                  readable |-> TRUE, spooled |-> FALSE]
\* with a file of an unsupported type and an unreadable one
IngestFiles == MixedFiles \cup {TxtFile, BadPdfFile}
\* one file, or two files of which one at least is a markdown file
MixedFileLists ==
    {<<f>> : f \in IngestFiles \cup {SentencesFile}}
    \cup {<<f, g>> : f \in MixedFiles, g \in IngestFiles}
    \cup {<<f, g>> : f \in IngestFiles, g \in MixedFiles}

InitIngest ==
    /\ now = 0
    /\ issued = {}
    /\ classExists = FALSE
    /\ docs = <<>>
    /\ strictDelete = FALSE
    /\ env = RequiredEnv
    /\ workers = [w \in Workers |-> Idle]
    /\ session = NoSession
    /\ reading = <<>>
    /\ last = Request("none", <<>>, NoInput, 0,
                      Response(0, <<>>, NoHeaders, NoBody, <<>>))

UploadMixed == UploadFrom(MixedFileLists, NoFault)

NextIngest == Login \/ UploadMixed

SpecIngest == InitIngest /\ [][NextIngest]_vars

(***************************************************************************)
(* clean_text on its own: every text of up to MaxMarkupLen characters over *)
(* a letter, the markdown markup characters and white space, and the text  *)
(* "# Title\n**bold** [text](url)", is cleaned, and the result is cleaned  *)
(* once more.                                                              *)
(***************************************************************************)
MaxMarkupLen == 4
MarkupAlphabet == {"a", "#", "*", "_", "-", "+", "[", "]", "(", ")", "!", " ", "\n"}
ExampleText ==
    <<"#", " ", "T", "i", "t", "l", "e", "\n", "*", "*", "b", "o", "l", "d", "*",
      "*", " ", "[", "t", "e", "x", "t", "]", "(", "u", "r", "l", ")">>
MarkupTexts == UNION {[1..n -> MarkupAlphabet] : n \in 0..MaxMarkupLen}
               \cup {ExampleText}

InitClean ==
    /\ now = 0
    /\ issued = {}
    /\ classExists = FALSE
    /\ docs = <<>>
    /\ strictDelete = FALSE
    /\ env = RequiredEnv
    /\ workers = [w \in Workers |-> Idle]
    /\ session = NoSession
    /\ reading = <<>>
    /\ last = Request("none", <<>>, NoInput, 0,
                      Response(0, <<>>, NoHeaders, NoBody, <<>>))

Cleaned(text, again) ==
    Request("clean_text", <<>>, [text |-> text, again |-> again], now,
            Response(0, <<>>, NoHeaders, [cleaned |-> clean_text(text)], <<>>))

\* clean_text(text)
CleanText ==
    /\ last.endpoint = "none"
    /\ \E text \in MarkupTexts : last' = Cleaned(text, FALSE)
    /\ UNCHANGED <<now, issued, classExists, docs, strictDelete, env, workers, session, reading>>

\* clean_text applied to what the call before returned
CleanAgain ==
    /\ last.endpoint = "clean_text" /\ ~last.input.again
    /\ last' = Cleaned(last.body.cleaned, TRUE)
    /\ UNCHANGED <<now, issued, classExists, docs, strictDelete, env, workers, session, reading>>

NextClean == CleanText \/ CleanAgain

SpecClean == InitClean /\ [][NextClean]_vars

(***************************************************************************)
(* create_vector_store on its own, over a collection that may hold         *)
(* records: lists of up to MaxChunks chunks are stored, the embedding of   *)
(* any one chunk may raise and the write of the batch may fail.            *)
(***************************************************************************)
MaxChunks == 3
BatchChunks == {<<Char>>, <<Char, Char>>}
ChunkLists == UNION {[1..n -> BatchChunks] : n \in 0..MaxChunks}

InitStore ==
    /\ now = 0
    /\ issued = {}
    /\ classExists \in BOOLEAN
    /\ docs = <<>>
    /\ strictDelete = FALSE
    /\ env = RequiredEnv
    /\ workers = [w \in Workers |-> Idle]
    /\ session = NoSession
    /\ reading = <<>>
    /\ last = Request("none", <<>>, NoInput, 0,
                      Response(0, <<>>, NoHeaders, NoBody, <<>>))

Store ==
    \E chunks \in ChunkLists, embed_at \in 0..MaxChunks, write_fails \in BOOLEAN :
        LET stored == store_chunks(chunks, "none", embed_at, write_fails,
                                   classExists, docs)
        IN  /\ embed_at <= Len(chunks)
            /\ Len(stored.docs) <= MaxStored
            /\ classExists' = stored.classExists
            /\ docs' = stored.docs
            /\ last' = Request("create_vector_store", <<>>,
                               [chunks |-> chunks, embed_at |-> embed_at,
                                write_fails |-> write_fails],
                               now,
                               Response(0, <<>>, NoHeaders,
                                        [ok |-> stored.ok, error |-> stored.error],
                                        stored.calls))
            /\ UNCHANGED <<now, issued, strictDelete, env, workers, session, reading>>

NextStore == Store

SpecStore == InitStore /\ [][NextStore]_vars

(***************************************************************************)
(* Requests handled concurrently.  Two workers each handle one request of  *)
(* an authenticated client while the other runs; no service fails.  What   *)
(* a handler does between two accesses to Weaviate is local to it, so a    *)
(* step of a worker is one access to the collection:                       *)
(*   query   the retrieval of retrieve_context_with_scoring, then the      *)
(*           retrieval of the RetrievalQA chain followed by the chat call  *)
(*   upload  create_class, then the flush of the batch                     *)
(*   delete  delete_class                                                  *)
(***************************************************************************)
\* the collection before the two requests
BaseDocs == <<<<Char>>>>
\* the chunk lists of the uploads
UploadChunkLists == {<<<<Char>>>>, <<<<Char, Char>>>>, <<<<Char>>, <<Char, Char>>>>}

InitConcurrent ==
    /\ now = 0
    /\ issued = {}
    /\ classExists = TRUE
    /\ docs = BaseDocs
    /\ strictDelete \in BOOLEAN
    /\ env = RequiredEnv
    /\ workers = [w \in Workers |-> Idle]
    /\ session = NoSession
    /\ reading = <<>>
    /\ last = Request("none", <<>>, NoInput, 0,
                      Response(0, <<>>, NoHeaders, NoBody, <<>>))

\* mutant: creating the class replaces the class of the same name
create_class_replaces(cls, ds) == [classExists |-> TRUE, docs |-> <<>>]

\* client.schema.create_class(class_obj) inside try/except: the class is
\* created when it is missing; when it exists the call raises, the
\* exception is logged and the class is left as it is
create_class(cls, ds) == [classExists |-> TRUE, docs |-> ds]

\* the batch request of the flush as the server applies it: the objects are
\* added to the class; when the class has been deleted meanwhile, a server
\* with auto-schema creates it again from the objects, a server without
\* rejects each object (the client library logs this and does not raise)
batch_write(cls, ds, pending, autoschema) ==
    IF cls \/ autoschema
    THEN [classExists |-> TRUE, docs |-> ds \o pending]
    ELSE [classExists |-> cls, docs |-> ds]

\* process_query up to context_results = retrieve_context_with_scoring(query)
BeginQuery(w) ==
    \E query \in Queries :
        /\ workers[w].step = "idle"
        /\ workers' = [workers EXCEPT ![w] =
               IF ~classExists
               THEN [Idle EXCEPT !.op = "query", !.step = "done",
                                 !.input = query, !.status = 500]
               ELSE [Idle EXCEPT !.op = "query", !.step = "retrieved",
                                 !.input = query, !.seen = Len(docs),
                                 !.context =
                                     retrieve_context_with_scoring(query, docs, TOP_K)]]
        /\ UNCHANGED <<now, issued, classExists, docs, strictDelete, env, session, reading, last>>

\* qa_chain.invoke(query): the retriever of the chain searches the
\* collection again, the chat model answers from what it found; the
\* handler returns the answer with the context of the first retrieval
AnswerQuery(w) ==
    /\ workers[w].op = "query"
    /\ workers[w].step = "retrieved"
    /\ workers' = [workers EXCEPT ![w] =
           IF ~classExists
           THEN [workers[w] EXCEPT !.step = "done", !.context = <<>>,
                                   !.status = 500]
           ELSE LET query == workers[w].input
                    source_documents ==
                        Contents(similarity_search_with_score(query, docs, TOP_K))
                IN  [workers[w] EXCEPT !.step = "done",
                                       !.sources = source_documents,
                                       !.response = LLMAnswer(query, source_documents),
                                       !.status = 200]]
    /\ UNCHANGED <<now, issued, classExists, docs, strictDelete, env, session, reading, last>>

\* create_vector_store up to the batch block: the client and create_class
BeginUpload(w) ==
    \E chunks \in UploadChunkLists :
        /\ workers[w].step = "idle"
        /\ workers' = [workers EXCEPT ![w] =
               [Idle EXCEPT !.op = "upload", !.step = "class_created",
                            !.input = chunks, !.seen = Len(docs)]]
        /\ classExists' = create_class(classExists, docs).classExists
        /\ docs' = create_class(classExists, docs).docs
        /\ UNCHANGED <<now, issued, strictDelete, env, session, reading, last>>

\* the batch block: the chunks are embedded and added to the batch of this
\* client, and the exit of the block flushes them in one batch request
FlushUpload(w) ==
    \E autoschema \in BOOLEAN :
        LET written == batch_write(classExists, docs, workers[w].input, autoschema)
        IN  /\ workers[w].op = "upload"
            /\ workers[w].step = "class_created"
            /\ workers' = [workers EXCEPT ![w] =
                   [workers[w] EXCEPT !.step = "done", !.status = 200]]
            /\ classExists' = written.classExists
            /\ docs' = written.docs
            /\ UNCHANGED <<now, issued, strictDelete, env, session, reading, last>>

\* delete_all_documents: delete_class is one call
DeleteAll(w) ==
    LET deleted == delete_all_documents("none", classExists, docs, strictDelete)
    IN  /\ workers[w].step = "idle"
        /\ workers' = [workers EXCEPT ![w] =
               [Idle EXCEPT !.op = "delete", !.step = "done",
                            !.seen = Len(docs),
                            !.status = IF deleted.ok THEN 200 ELSE 500]]
        /\ classExists' = deleted.classExists
        /\ docs' = deleted.docs
        /\ UNCHANGED <<now, issued, strictDelete, env, session, reading, last>>

NextConcurrent ==
    \E w \in Workers :
        BeginQuery(w) \/ AnswerQuery(w) \/ BeginUpload(w) \/ FlushUpload(w)
        \/ DeleteAll(w)

SpecConcurrent == InitConcurrent /\ [][NextConcurrent]_vars

(***************************************************************************)
(* frontend/app.py: the Streamlit page.  One action is one run of the      *)
(* script main() caused by the press of a button or by a choice in the     *)
(* file uploader.  The session keeps the token, the files of the uploader  *)
(* widget and the result of the last processing; event, shown, sent and    *)
(* raised are what the last run was caused by, the messages it displayed,  *)
(* the HTTP requests it sent and the exception that ended it.              *)
(***************************************************************************)
\* st.file_uploader(type=['pdf', 'md'], accept_multiple_files=True)
UploaderFileLists ==
    {<<>>, <<PdfFile>>, <<EmptyMdFile>>, <<BadPdfFile>>, <<PdfFile, EmptyMdFile>>}

\* what one run of the script leaves: the token returned or the result
\* returned, the messages, the requests, an exception, and the backend
\* after the requests
Ran(value, shown, sent, raised, handled) ==
    [value |-> value, shown |-> shown, sent |-> sent, raised |-> raised,
     handled |-> handled]

\* no request reached the backend
NotHandled == Handled(Response(0, <<>>, NoHeaders, NoBody, <<>>), FALSE, <<>>)

\* app.py login: POST /token; the token of a 200 answer, otherwise None
\* and an error message (down: the backend cannot be reached)
app_login(email, password, down, t) ==
    LET response == login(email, password, t)
        sent == <<[endpoint |-> "token", auth |-> <<>>]>>
    IN  IF down
        THEN Ran(<<>>, <<"Login failed">>, sent, <<>>, NotHandled)
        ELSE IF response.status = 200
        THEN Ran(<<response.body.access_token>>, <<>>, sent, <<>>,
                 Handled(response, FALSE, <<>>))
        ELSE Ran(<<>>, <<"Invalid email or password">>, sent, <<>>,
                 Handled(response, FALSE, <<>>))

\* app.py upload_files(files, token): POST /upload with the token as
\* bearer; the JSON of a 200 answer, otherwise None and an error message
upload_files(files, token, t, cls, ds) ==
    LET sent == <<[endpoint |-> "upload", auth |-> <<token>>]>>
        post(user) == IF user.ok
                      THEN upload_documents(files, "none", t, cls, ds)
                      ELSE Handled(Unauthorized(user), cls, ds)
        answered(handled) ==
            IF handled.resp.status = 200
            THEN Ran(<<handled.resp.body>>, <<>>, sent, <<>>, handled)
            ELSE Ran(<<>>, <<"Error uploading files">>, sent, <<>>, handled)
    IN  IF files = <<>>
        THEN Ran(<<>>, <<>>, <<>>, <<>>, NotHandled)
        ELSE answered(post(get_current_user(<<token>>, t)))

\* a call of upload_files with the positional arguments args: the function
\* has two required parameters, any other number of arguments raises
\* TypeError before its body runs
call_upload_files(args, t, cls, ds) ==
    IF Len(args) # 2
    THEN Ran(<<>>, <<>>, <<>>, <<"TypeError">>, NotHandled)
    ELSE upload_files(args[1], args[2], t, cls, ds)

\* main, the branch of st.button("Process"): the call passes the files only
process_pressed(uploaded_files, t, cls, ds) ==
    LET show(ran) ==
            IF ran.raised = <<>> /\ ran.value # <<>>
            THEN [ran EXCEPT !.shown = ran.shown \o <<"files are processed.">>]
            ELSE ran
    IN  IF uploaded_files = <<>>
        THEN Ran(<<>>, <<"Please upload at least one file first!">>, <<>>, <<>>,
                 NotHandled)
        ELSE show(call_upload_files(<<uploaded_files>>, t, cls, ds))

InitFrontend ==
    /\ now = 0
    /\ issued = {}
    /\ classExists = FALSE
    /\ docs = <<>>
    /\ strictDelete = FALSE
    /\ env = RequiredEnv
    /\ workers = [w \in Workers |-> Idle]
    /\ session = NoSession
    /\ reading = <<>>
    /\ last = Request("none", <<>>, NoInput, 0,
                      Response(0, <<>>, NoHeaders, NoBody, <<>>))

\* st.rerun() (app.py:63, 68): the run is abandoned and the script runs
\* once more from the top with the session as it is; in that run no button
\* is pressed, so it shows no message and sends no request, and what the
\* abandoned run displayed is gone
rerun(ran) == Ran(ran.value, <<>>, <<>>, <<>>, ran.handled)

\* the login form is rendered while the session has no token; the run of a
\* successful login stores the token and ends in st.rerun()
PressLogin ==
    \E email \in Usernames, password \in Passwords, down \in BOOLEAN :
        LET pressed(ran, after) ==
                /\ Cardinality(IF ran.value # <<>>
                               THEN issued \cup {[token |-> ran.value[1], at |-> now]}
                               ELSE issued) <= MaxTokens
                /\ session' = [session EXCEPT
                       !.token = after.value,
                       !.event = "login",
                       !.shown = after.shown,
                       !.sent = after.sent,
                       !.raised = after.raised]
                /\ issued' = IF ran.value # <<>>
                             THEN issued \cup {[token |-> ran.value[1], at |-> now]}
                             ELSE issued
                /\ last' = IF down THEN last
                           ELSE Request("token", <<>>,
                                        [username |-> email, password |-> password],
                                        now, ran.handled.resp)
                /\ UNCHANGED <<now, classExists, docs, strictDelete, env, workers, reading>>
            run(ran) == pressed(ran, IF ran.value # <<>> THEN rerun(ran) ELSE ran)
        IN  /\ session.token = <<>>
            /\ run(app_login(email, password, down, now))

\* the sidebar is rendered while the session has a token; the run of the
\* logout clears the token and ends in st.rerun(), and in the run that
\* follows the uploader is no longer rendered and its files are dropped
PressLogout ==
    /\ session.token # <<>>
    /\ session' = [session EXCEPT !.token = <<>>, !.uploaded_files = <<>>,
                                  !.event = "logout", !.shown = <<>>,
                                  !.sent = <<>>, !.raised = <<>>]
    /\ UNCHANGED <<now, issued, classExists, docs, strictDelete, env, workers, reading, last>>

ChooseFiles ==
    \E files \in UploaderFileLists :
        /\ session.token # <<>>
        /\ session' = [session EXCEPT !.uploaded_files = files,
                                      !.event = "choose", !.shown = <<>>,
                                      !.sent = <<>>, !.raised = <<>>]
        /\ UNCHANGED <<now, issued, classExists, docs, strictDelete, env, workers, reading, last>>

\* the state after a run of the "Process" branch that left ran
Processed(ran) ==
    /\ session.token # <<>>
    /\ session' = [session EXCEPT
           !.event = "process",
           !.shown = ran.shown,
           !.sent = ran.sent,
           !.raised = ran.raised,
           !.last_process_result =
               IF ran.raised = <<>> /\ ran.value # <<>>
               THEN ran.value ELSE session.last_process_result]
    /\ classExists' = IF ran.sent # <<>> THEN ran.handled.classExists
                      ELSE classExists
    /\ docs' = IF ran.sent # <<>> THEN ran.handled.docs ELSE docs
    /\ last' = IF ran.sent # <<>>
               THEN Request("upload", ran.sent[1].auth,
                            [files |-> session.uploaded_files], now,
                            ran.handled.resp)
               ELSE last
    /\ UNCHANGED <<now, issued, strictDelete, env, workers, reading>>

PressProcess ==
    Processed(process_pressed(session.uploaded_files, now, classExists, docs))

NextFrontend == Tick \/ PressLogin \/ PressLogout \/ ChooseFiles \/ PressProcess

SpecFrontend == InitFrontend /\ [][NextFrontend]_vars

TypeOK ==
    /\ now \in 0..MaxTime
    /\ Cardinality(issued) <= MaxTokens
    /\ classExists \in BOOLEAN
    /\ Len(docs) <= MaxDocs
    /\ ~classExists => docs = <<>>
    /\ env \subseteq RequiredEnv
    /\ Len(reading) <= MaxInFlight
    /\ last.endpoint \in Protected \cup {"none", "token", "healthcheck"}

(***************************************************************************)
(* Properties.                                                             *)
(***************************************************************************)
Range(s) == {s[i] : i \in 1..Len(s)}

IsLogin == last.endpoint = "token"
\* the last request went to a protected endpoint and has been answered
IsProtected == last.endpoint \in Protected /\ last.status # 0
HasToken == last.auth # <<>>
SeededPair ==
    last.input.username = SeededEmail /\ last.input.password = SeededPassword

\* the token has an exp claim and the clock t is past it
Expired(token, t) == token.exp # NoExp /\ token.exp < t
\* the token's signature does not verify under the signing secret
Tampered(token) == token.wf /\ token.key # SECRET_KEY

\* C1: POST /token with the seeded email and its password answers 200 with
\* a bearer token, signed with the secret, whose subject is that email; any
\* other email or password answers 400 and the response holds no token.
C1_LoginSeededPairOnly ==
    IsLogin =>
        IF SeededPair
        THEN /\ last.status = 200
             /\ last.body.token_type = "bearer"
             /\ jwt_decode(last.body.access_token, SECRET_KEY, last.at).ok
             /\ jwt_decode(last.body.access_token, SECRET_KEY, last.at).sub
                    = last.input.username
             /\ [token |-> last.body.access_token, at |-> last.at] \in issued
        ELSE /\ last.status = 400
             /\ last.body = NoBody
             /\ \A i \in issued : i.token.sub # last.input.username
                                   \/ last.input.username = SeededEmail

\* a login refused after an earlier login succeeded
C1_Witness ==
    /\ IsLogin /\ ~SeededPair /\ last.status = 400
    /\ \E i \in issued : i.token.sub = SeededEmail

\* C2: on every protected endpoint a request whose token is past its expiry,
\* or whose token's signature does not verify, is answered 401.
C2_ExpiredOrTamperedIs401 ==
    (IsProtected /\ HasToken
     /\ (Expired(last.auth[1], last.at) \/ Tampered(last.auth[1])))
        => last.status = 401

\* a token login issued, presented after its expiry and refused
C2_Witness ==
    /\ IsProtected /\ HasToken /\ last.status = 401
    /\ \E i \in issued : i.token = last.auth[1] /\ last.at > i.token.exp

\* C8: every token a successful login issues expires exactly 30 minutes
\* after the time of issue.
C8_ThirtyMinuteExpiry ==
    /\ \A i \in issued : i.token.exp = i.at + 30
    /\ (IsLogin /\ last.status = 200) => last.body.access_token.exp = last.at + 30

\* a login that succeeded later than time 0
C8_Witness ==
    IsLogin /\ last.status = 200 /\ last.at > 0 /\ issued # {}

\* C9: a refused login gets one and the same response, whether the email is
\* unknown or the email is known and the password wrong.
C9_LoginFailureUniform ==
    (IsLogin /\ ~SeededPair) =>
        /\ last.status = 400
        /\ last.detail = <<"Incorrect email or password">>
        /\ last.headers = NoHeaders
        /\ last.body = NoBody

\* a login with an email the table does not hold, refused
C9_Witness ==
    IsLogin /\ last.input.username \notin DOMAIN fake_users_db /\ last.status = 400

\* whether some stretch of the detail is the file's name
Names(detail, filename) ==
    \E k \in 1..Len(detail) :
        SubSeq(detail, k, k + Len(filename) - 1) = filename
Supported(file) ==
    file.filename[Len(file.filename)] \in {".pdf", ".md"}

\* C3: an authenticated POST /upload in which some file's name ends in
\* neither ".pdf" nor ".md" is answered 400 with a detail naming that file.
C3_UnsupportedFileIs400 ==
    (last.endpoint = "upload" /\ last.status \notin {0, 401}
     /\ \E i \in 1..Len(last.input.files) : ~Supported(last.input.files[i]))
        => /\ last.status = 400
           /\ \E i \in 1..Len(last.input.files) :
                  /\ ~Supported(last.input.files[i])
                  /\ Names(last.detail, last.input.files[i].filename)

NoRelevantAnswer == <<"no relevant information found">>

\* C4: when the retrieval of a query returns zero chunks, POST /query
\* answers with the fixed "no relevant information found" text and an empty
\* context, and the chat model is not called in that request.
C4_EmptyRetrievalSkipsModel ==
    (last.endpoint = "query" /\ "near_vector" \in Range(last.calls)
     /\ classExists /\ docs = <<>>)
        => /\ last.status = 200
           /\ last.body.response = NoRelevantAnswer
           /\ last.body.context = <<>>
           /\ "chat" \notin Range(last.calls)
           /\ "chat failed" \notin Range(last.calls)

\* C5: a DELETE /documents that directly follows a successful DELETE
\* /documents (no upload in between) does not end in an error: the missing
\* collection counts as success.
C5_SecondDeleteSucceeds ==
    [][(/\ last.endpoint = "delete" /\ last.status = 200
        /\ last'.endpoint = "delete" /\ last'.status # 401
        /\ "connect failed" \notin Range(last'.calls))
           => last'.status = 200]_vars

\* the token fails one of the steps of validation at clock t
TokenDefective(token, t) ==
    \/ ~token.wf
    \/ token.key # SECRET_KEY
    \/ Expired(token, t)
    \/ token.sub = NoSub
    \/ token.sub \notin DOMAIN fake_users_db
TokenValid(auth, t) == auth # <<>> /\ ~TokenDefective(auth[1], t)

\* C6: a token that is malformed, expired, wrongly signed, without subject
\* or with a subject the credential table does not hold always gets the
\* same response: 401, the same detail, the same headers, no body.
C6_UniformUnauthorized ==
    (IsProtected /\ HasToken /\ TokenDefective(last.auth[1], last.at))
        => /\ last.status = 401
           /\ last.detail = <<"Invalid authentication credentials">>
           /\ last.headers = BearerChallenge
           /\ last.body = NoBody

\* a correctly signed, unexpired token for an unknown subject, refused
C6_Witness ==
    /\ IsProtected /\ HasToken /\ last.status = 401
    /\ last.auth[1].wf /\ last.auth[1].key = SECRET_KEY
    /\ ~Expired(last.auth[1], last.at)
    /\ last.auth[1].sub = UnknownEmail

\* what a protected request did outside the process
C7_CallsOnlyWhenValidated ==
    IsProtected =>
        /\ last.calls # <<>> => TokenValid(last.auth, last.at)
        /\ last.status = 401 => last.calls = <<>>

\* C7: the upload, query and delete handlers reach the vector store, the
\* embedding service and the chat model only in a request whose token was
\* validated; a request answered 401 leaves the collection as it was.
C7_StoreOnlyWhenAuthenticated ==
    /\ []C7_CallsOnlyWhenValidated
    /\ [][(last'.endpoint \in Protected
           /\ (last'.status = 401 \/ ~TokenValid(last'.auth, last'.at)))
              => UNCHANGED <<classExists, docs>>]_vars

\* a request refused with 401 while the collection holds records
C7_Witness ==
    IsProtected /\ last.status = 401 /\ classExists /\ docs # <<>>

\* C10: a token issued by login is accepted by every protected endpoint at
\* every time before its expiry, whatever logins, uploads, queries and
\* deletes happened since it was issued.
C10_IssuedTokenValidUntilExpiry ==
    /\ \A i \in issued :
           now < i.token.exp => get_current_user(<<i.token>>, now).ok
    /\ (IsProtected /\ HasToken /\ last.at < last.auth[1].exp
        /\ \E i \in issued : i.token = last.auth[1])
           => last.status # 401

\* a token accepted after a later login issued another token
C10_Witness ==
    /\ IsProtected /\ HasToken /\ last.status # 401
    /\ \E i, j \in issued :
           /\ i.token = last.auth[1]
           /\ j.at > i.at
           /\ last.at >= j.at
           /\ last.at < i.token.exp

\* C11: a successful authenticated DELETE /documents returns a body that
\* holds a status field and a message field.
C11_DeleteBodyHasStatusAndMessage ==
    (last.endpoint = "delete" /\ last.status = 200)
        => {"status", "message"} \subseteq DOMAIN last.body

\* the external calls that raised
FailedCalls == {"connect failed", "embed failed", "near_vector failed",
                "chat failed", "delete_class failed"}
CallFailed(calls) == Range(calls) \cap FailedCalls # {}
Count(calls, c) == Cardinality({i \in 1..Len(calls) : calls[i] = c})

IsHealth == last.endpoint = "healthcheck"
\* the health check whose system section could be filled
IsHealthReport == IsHealth /\ last.input.system # NoSystem
\* C12: when a required environment variable is not set, GET /healthcheck
\* reports the overall status "error", not "degraded".
C12_MissingEnvIsError ==
    (IsHealthReport /\ env # RequiredEnv) => last.body.status = "error"

\* whether the probes of the last health check had to fail
WeaviateProbeFails == last.input.storeDown \/ env # RequiredEnv
OpenAIProbeFails == last.input.embedDown \/ "OPENAI_API_KEY" \notin env

\* C13: GET /healthcheck, when the check itself does not throw (its system
\* section can be filled), answers normally and reports both probes, each
\* as ok or error on its own: the embedding probe is run whatever became of
\* the vector store probe; the overall status is "ok" exactly when both
\* probes succeed and "degraded" when at least one fails.
C13_ProbesIndependent ==
    IsHealthReport =>
        /\ last.status = 200
        /\ "OPENAI_API_KEY" \in env =>
               Count(last.calls, "embed") + Count(last.calls, "embed failed") = 1
        /\ DOMAIN last.body.components = {"weaviate", "openai"}
        /\ last.body.components.weaviate.status
               = (IF WeaviateProbeFails THEN "error" ELSE "ok")
        /\ last.body.components.openai.status
               = (IF OpenAIProbeFails THEN "error" ELSE "ok")
        /\ last.body.status
               = (IF WeaviateProbeFails \/ OpenAIProbeFails THEN "degraded" ELSE "ok")

\* the vector store probe failed and the embedding probe is reported ok
C13_Witness ==
    /\ IsHealthReport /\ WeaviateProbeFails /\ ~OpenAIProbeFails
    /\ last.body.components.openai.status = "ok"
    /\ last.body.status = "degraded"

\* C14: a successful POST /query returns a context list of at most three
\* items (as many as the collection holds when it holds fewer), each with
\* exactly a content and a relevance score, the score being the similarity
\* of the query and that content, ordered from the highest score to the
\* lowest.
C14_ContextTopThreeDescending ==
    (last.endpoint = "query" /\ last.status = 200)
        => LET context == last.body.context
           IN  /\ Len(context) <= 3
               /\ Len(context) = Min(3, Len(docs))
               /\ \A i \in 1..Len(context) :
                      /\ DOMAIN context[i] = {"content", "relevance_score"}
                      /\ context[i].content \in Range(docs)
                      /\ context[i].relevance_score
                             = Similarity(last.input.query, context[i].content)
               /\ \A i \in 1..Len(context), j \in 1..Len(context) :
                      i < j => context[i].relevance_score
                                   >= context[j].relevance_score

\* a query over more than three records of different similarity
C14_Witness ==
    /\ last.endpoint = "query" /\ last.status = 200
    /\ Len(docs) > 3
    /\ Len(last.body.context) = 3
    /\ last.body.context[1].relevance_score > last.body.context[3].relevance_score
    /\ \E i \in 1..Len(docs) :
           Similarity(last.input.query, docs[i])
               < last.body.context[3].relevance_score

\* the text of the files of a request, one after the other
RECURSIVE CombinedText(_)
CombinedText(files) ==
    IF files = <<>> THEN <<>> ELSE Head(files).text \o CombinedText(Tail(files))

AllExtracted(files) ==
    \A i \in 1..Len(files) : Supported(files[i]) /\ files[i].readable

\* a step in which the handler of an accepted POST /upload answers
UploadStep ==
    /\ now' = now /\ last'.endpoint = "upload" /\ last'.status \notin {0, 401}
    /\ (Len(reading') < Len(reading) \/ reading' = reading)

\* C15: POST /upload has no partial success.  It answers 200 only when the
\* text of every file was extracted, every file is listed and one record
\* per chunk was added; when an extraction fails or an external call
\* raises it answers 500, and a 500 carries no listing of files.
C15_UploadAllOrError ==
    [][UploadStep =>
          LET files == last'.input.files
          IN  /\ last'.status \in {200, 500}
              /\ last'.status = 200 =>
                     /\ AllExtracted(files)
                     /\ ~CallFailed(last'.calls)
                     /\ Len(last'.body.processed_files) = Len(files)
                     /\ \A i \in 1..Len(files) :
                            last'.body.processed_files[i].filename
                                = files[i].filename
                     /\ Len(docs') = Len(docs)
                                        + Len(get_text_chunks(CombinedText(files)))
                     /\ Count(last'.calls, "add_data_object")
                            = Len(get_text_chunks(CombinedText(files)))
              /\ last'.status = 500 => last'.body = NoBody
              /\ (\/ \E i \in 1..Len(files) : ~files[i].readable
                  \/ CallFailed(last'.calls))
                     => last'.status = 500]_vars

\* the first file was extracted, the second could not be: the answer is 500
\* without a listing
C15_Witness ==
    /\ last.endpoint = "upload" /\ last.status = 500 /\ last.body = NoBody
    /\ Len(last.input.files) = 2
    /\ Supported(last.input.files[1]) /\ last.input.files[1].readable
    /\ last.input.files[1].text # <<>>
    /\ ~last.input.files[2].readable

\* the exception an external call raised
UnderlyingError(calls) ==
    IF "connect failed" \in Range(calls) THEN ConnectionError
    ELSE IF "embed failed" \in Range(calls) THEN EmbeddingError
    ELSE IF "near_vector failed" \in Range(calls) THEN QueryError
    ELSE IF "chat failed" \in Range(calls) THEN ChatError
    ELSE ClassNotFound

\* C16: when a call to the embedding service, the vector store or the chat
\* model raises during an authenticated upload, query or delete, the
\* response is a 500 whose detail is the message of that exception.
C16_FailureDetailIsUnderlyingMessage ==
    (IsProtected /\ CallFailed(last.calls))
        => /\ last.status = 500
           /\ last.detail = Str(UnderlyingError(last.calls))

\* C17: create_vector_store succeeds whether or not the class exists; after
\* a successful call the class exists and the collection is the collection
\* before the call followed by the chunks, one record (one embedding, one
\* add_data_object) per chunk, so that storing the same chunks again
\* stores them twice.
C17_StoreAppendsOnePerChunk ==
    [][UploadStep =>
          LET files == last'.input.files
              chunks == get_text_chunks(CombinedText(files))
          IN  /\ (AllExtracted(files) /\ ~CallFailed(last'.calls)
                  /\ env = RequiredEnv) => last'.status = 200
              /\ last'.status = 200 =>
                     /\ classExists'
                     /\ docs' = docs \o chunks
                     /\ Count(last'.calls, "embed") = Len(chunks)
                     /\ Count(last'.calls, "add_data_object") = Len(chunks)
                     /\ Count(last'.calls, "create_class") = 1]_vars

\* the same chunk was stored twice: the collection holds it twice
C17_Witness ==
    /\ last.endpoint = "upload" /\ last.status = 200
    /\ Len(docs) = 2 /\ docs[1] = docs[2]
    /\ get_text_chunks(CombinedText(last.input.files)) = <<docs[2]>>

\* a step that handles a DELETE /documents that succeeded
DeleteStep ==
    /\ now' = now /\ reading' = reading
    /\ last'.endpoint = "delete" /\ last'.status = 200

\* C18: a successful delete leaves no class and no record, whatever the
\* collection held and whichever token deleted it; a query returns only
\* contents the collection holds and the health check counts no more
\* records than it holds, so nothing stored before the delete is returned
\* or counted after it; an upload on the missing class whose calls all
\* succeed is answered 200, creates the class and stores its chunks.
C18_DeleteRemovesEverything ==
    /\ [][DeleteStep => (~classExists' /\ docs' = <<>>)]_vars
    /\ [](~classExists => docs = <<>>)
    /\ []((last.endpoint = "query" /\ last.status = 200)
             => /\ classExists
                /\ \A i \in 1..Len(last.body.context) :
                       last.body.context[i].content \in Range(docs))
    /\ []((IsHealthReport /\ last.body.components.weaviate.status = "ok")
             => last.body.components.weaviate.document_count <= Len(docs))
    /\ [][(UploadStep /\ ~classExists /\ AllExtracted(last'.input.files)
            /\ ~CallFailed(last'.calls) /\ env = RequiredEnv)
              => /\ last'.status = 200
                 /\ classExists'
                 /\ docs' = get_text_chunks(CombinedText(last'.input.files))]_vars

\* a delete succeeded on a server that refuses to delete a missing class:
\* the class existed, and it and its records are gone
C18_Witness ==
    /\ last.endpoint = "delete" /\ last.status = 200
    /\ strictDelete
    /\ ~classExists /\ docs = <<>>

IsSplit == last.endpoint = "split_text"

\* the last k characters of a are the first k characters of b
SharesOverlap(a, b, k) ==
    /\ Len(a) >= k /\ Len(b) >= k
    /\ SubSeq(a, Len(a) - k + 1, Len(a)) = SubSeq(b, 1, k)

\* the chunks one after the other, the first k characters of every chunk
\* but the first left out
RECURSIVE DropOverlaps(_, _)
DropOverlaps(chunks, k) ==
    IF chunks = <<>> THEN <<>>
    ELSE SubSeq(Head(chunks), k + 1, Len(Head(chunks)))
         \o DropOverlaps(Tail(chunks), k)
Reconstruct(chunks, k) ==
    IF chunks = <<>> THEN <<>> ELSE Head(chunks) \o DropOverlaps(Tail(chunks), k)

NoWhiteSpace(text) == \A i \in 1..Len(text) : ~IsSpace(text[i])

\* C20 as stated: no chunk is longer than the chunk size, every two
\* consecutive chunks, the last two possibly excepted, share exactly the
\* overlap as end of the first and start of the second, and the chunks
\* with the overlaps dropped give back the text.
C20_ExactOverlapAndReconstruction ==
    IsSplit =>
        LET chunks == last.body.chunks
        IN  /\ \A i \in 1..Len(chunks) : Len(chunks[i]) <= CHUNK_SIZE
            /\ \A i \in 1..(Len(chunks) - 2) :
                   SharesOverlap(chunks[i], chunks[i + 1], CHUNK_OVERLAP)
            /\ Reconstruct(chunks, CHUNK_OVERLAP) = last.input.text

\* C20 amended: no chunk is longer than the chunk size; when the text holds
\* no white space, every two consecutive chunks share exactly the overlap
\* and the chunks with the overlaps dropped give back the text.
C20_ExactOverlapWithoutWhiteSpace ==
    IsSplit =>
        LET chunks == last.body.chunks
        IN  /\ \A i \in 1..Len(chunks) : Len(chunks[i]) <= CHUNK_SIZE
            /\ NoWhiteSpace(last.input.text) =>
                   /\ \A i \in 1..(Len(chunks) - 1) :
                          SharesOverlap(chunks[i], chunks[i + 1], CHUNK_OVERLAP)
                   /\ Reconstruct(chunks, CHUNK_OVERLAP) = last.input.text

\* a text without white space that needs three chunks, not all alike
C20_Witness ==
    /\ IsSplit
    /\ NoWhiteSpace(last.input.text)
    /\ Len(last.body.chunks) >= 3
    /\ last.body.chunks[1] # last.body.chunks[2]
    /\ Len(last.input.text) > 2 * CHUNK_SIZE - CHUNK_OVERLAP

\* C19: the chunks a successful POST /upload stores are the chunks of the
\* normalized text: the last records of the collection are what the
\* chunker makes of clean_text applied to the text of the files.
C19_StoredChunksAreNormalized ==
    (last.endpoint = "upload" /\ last.status = 200)
        => LET chunks == get_text_chunks(clean_text(CombinedText(last.input.files)))
           IN  /\ Len(docs) >= Len(chunks)
               /\ SubSeq(docs, Len(docs) - Len(chunks) + 1, Len(docs)) = chunks

IsClean == last.endpoint = "clean_text"

\* C21: clean_text("# Title\n**bold** [text](url)") is "title bold text".
C21_ExampleNormalized ==
    (IsClean /\ last.input.text = ExampleText)
        => last.body.cleaned
               = <<"t", "i", "t", "l", "e", " ", "b", "o", "l", "d", " ",
                   "t", "e", "x", "t">>

\* the example text has been cleaned
C21_Witness ==
    /\ IsClean /\ ~last.input.again
    /\ last.input.text = ExampleText
    /\ Len(last.body.cleaned) = 15

\* C22: clean_text is idempotent: cleaning what clean_text returned
\* returns it unchanged.
C22_CleanTextIdempotent ==
    (IsClean /\ last.input.again) => last.body.cleaned = last.input.text

\* C23: POST /upload joins the texts of the files in the order of the
\* request with nothing in between, chunks the whole once and stores the
\* chunks after that: a successful upload adds the chunks of the joined
\* text, and an upload in which some file is of an unsupported type or
\* cannot be extracted, wherever in the request it stands, stores nothing
\* and makes no call to the store.
C23_ChunkOnceAfterAllFiles ==
    [][UploadStep =>
          LET files == last'.input.files
          IN  /\ last'.status = 200 =>
                     docs' = docs \o get_text_chunks(CombinedText(files))
              /\ ~AllExtracted(files) =>
                     /\ docs' = docs /\ classExists' = classExists
                     /\ last'.calls = <<>>]_vars

\* behind a record of an upload before, one stored chunk holds the text of
\* the first file followed by the different text of the second
C23_Witness ==
    /\ last.endpoint = "upload" /\ last.status = 200
    /\ Len(last.input.files) = 2
    /\ last.input.files[1].text # last.input.files[2].text
    /\ Len(docs) >= 2
    /\ docs[Len(docs)] = last.input.files[1].text \o last.input.files[2].text

\* C27: in a successful upload response the metadata listed for the i-th
\* file are the counts of sentences, tokens and characters of the
\* normalized text of the files 1..i joined, not those of the text of the
\* i-th file alone.
C27_MetadataOfPrefix ==
    (last.endpoint = "upload" /\ last.status = 200)
        => \A i \in 1..Len(last.input.files) :
               last.body.processed_files[i].metadata
                   = extract_metadata(
                         clean_text(CombinedText(SubSeq(last.input.files, 1, i))))

\* two files of two sentences each: the counts listed for the second file
\* are those of the three sentences of both texts joined, larger than the
\* counts of its own text, and those of the first file are its own
C27_Witness ==
    /\ last.endpoint = "upload" /\ last.status = 200
    /\ Len(last.input.files) = 2
    /\ extract_metadata(clean_text(last.input.files[2].text)).num_sentences = 2
    /\ last.body.processed_files[2].metadata.num_sentences = 3
    /\ last.body.processed_files[2].metadata.num_words
           > extract_metadata(clean_text(last.input.files[2].text)).num_words
    /\ last.body.processed_files[2].metadata.num_characters
           > Len(clean_text(last.input.files[2].text))
    /\ last.body.processed_files[1].metadata
           = extract_metadata(clean_text(last.input.files[1].text))

\* C24: the batch of create_vector_store is closed, and the objects added
\* so far are flushed, however the block is left.  When the embedding of
\* chunk k raises and the flush can write, the call fails and the k - 1
\* chunks before it stay in the collection behind the records it held;
\* when no call fails all chunks are added; when the flush cannot write
\* the objects it holds the call fails and the collection is unchanged.
C24_BatchFlushedOnEveryExit ==
    [][last'.endpoint = "create_vector_store" =>
          LET chunks == last'.input.chunks
              k == last'.input.embed_at
              added == IF k = 0 THEN chunks ELSE SubSeq(chunks, 1, k - 1)
          IN  /\ Count(last'.calls, "flush") + Count(last'.calls, "flush failed") = 1
              /\ last'.calls[Len(last'.calls)] \in {"flush", "flush failed"}
              /\ classExists'
              /\ IF added # <<>> /\ last'.input.write_fails
                 THEN ~last'.body.ok /\ docs' = docs
                 ELSE /\ last'.body.ok = (k = 0)
                      /\ docs' = docs \o added]_vars

\* the embedding of the third chunk raised: the call failed and the two
\* chunks before it are the last records of the collection
C24_Witness ==
    /\ last.endpoint = "create_vector_store"
    /\ last.input.embed_at = 3
    /\ ~last.body.ok
    /\ "embed failed" \in Range(last.calls)
    /\ Len(docs) >= 2
    /\ SubSeq(docs, Len(docs) - 1, Len(docs)) = SubSeq(last.input.chunks, 1, 2)

(***************************************************************************)
(* Concurrent requests.                                                    *)
(***************************************************************************)
QueryAnswered(w) ==
    workers[w].op = "query" /\ workers[w].step = "done" /\ workers[w].status = 200

UploadDone(w) == workers[w].op = "upload" /\ workers[w].step = "done"

\* the chunks the collection and the two uploads can hold
ChunkValues == Range(BaseDocs) \cup UNION {Range(l) : l \in UploadChunkLists}

\* C25: the context a query returns is exactly the set of chunks its answer
\* was generated from, also when an upload or a delete of another request
\* takes effect while the query is processed.
C25_ContextIsWhatTheAnswerUsed ==
    \A w \in Workers :
        QueryAnswered(w)
            => Range(Contents(workers[w].context)) = Range(workers[w].sources)

\* a query answered with no other request taking effect between its two
\* retrievals returns the chunks the answer was generated from
SequentialQueryConsistent ==
    \E w \in Workers :
        /\ QueryAnswered(w)
        /\ workers[w].seen = Len(docs)
        /\ workers[w].context # <<>>
        /\ Range(Contents(workers[w].context)) = Range(workers[w].sources)

\* C26: two uploads with the chunk lists A and B, interleaved in any way
\* and with no failure, both succeed, and afterwards the collection holds
\* every record it held before and every chunk of A and of B, each once
\* per upload that contained it.
C26_ConcurrentUploadsKeepEverything ==
    (UploadDone("w1") /\ UploadDone("w2"))
        => /\ workers["w1"].status = 200
           /\ workers["w2"].status = 200
           /\ \A c \in ChunkValues :
                  Count(docs, c) = Count(BaseDocs, c)
                                   + Count(workers["w1"].input, c)
                                   + Count(workers["w2"].input, c)

\* both uploads created the class before either flushed, both flushed, and
\* the second to start flushed first
C26_Witness ==
    /\ UploadDone("w1") /\ UploadDone("w2")
    /\ workers["w1"].seen = Len(BaseDocs)
    /\ workers["w2"].seen = Len(BaseDocs)
    /\ workers["w1"].input = <<<<Char>>, <<Char, Char>>>>
    /\ workers["w2"].input = <<<<Char, Char>>>>
    /\ docs = BaseDocs \o workers["w2"].input \o workers["w1"].input

(***************************************************************************)
(* The frontend.                                                           *)
(***************************************************************************)
LoggedIn == session.token # <<>>

\* C28: the session token is non-empty exactly when the most recent login
\* succeeded and no logout followed; the upload controls can be used only
\* while the token is non-empty; pressing "Process" with at least one file
\* chosen sends POST /upload with that token as bearer and then shows the
\* processed-file result.
C28_ProcessUploadsWithToken ==
    [][/\ (session'.event = "login" /\ session' # session)
              => (session'.token # <<>> <=>
                      /\ last'.endpoint = "token" /\ last'.status = 200
                      /\ session'.token = <<last'.body.access_token>>)
       /\ (session'.token # session.token)
              => session'.event \in {"login", "logout"}
       /\ (session'.event = "logout" /\ session' # session)
              => session'.token = <<>>
       /\ (session'.event \in {"choose", "process"} /\ session' # session)
              => LoggedIn
       /\ (session'.event = "process" /\ session' # session
           /\ session.uploaded_files # <<>>)
              => /\ session'.sent = <<[endpoint |-> "upload", auth |-> session.token]>>
                 /\ session'.raised = <<>>
                 /\ (last'.status = 200
                        => /\ "files are processed." \in Range(session'.shown)
                           /\ session'.last_process_result = <<last'.body>>)]_vars

\* the page after "Process" was pressed with a file chosen: the run ended
\* with TypeError and sent nothing
ProcessRaised ==
    /\ LoggedIn
    /\ session.event = "process"
    /\ session.uploaded_files # <<>>
    /\ session.raised = <<"TypeError">>
    /\ session.sent = <<>>

================================================================================
